---- MODULE Spec2Model ----
(***************************************************************************)
(* QR cafe menu service: the static menu page renderer (MenuGenerator),    *)
(* the cafe routes (creation, slug generation, update, publish, QR,        *)
(* delete), the deploy route, the public menu route and the menu item      *)
(* routes, modelled from the JavaScript sources.                           *)
(*                                                                         *)
(* Representation.  A JavaScript value is a tagged record (JsUndefined,    *)
(* JsNull, Str(s), Num(n), Arr(a)).  A string is a sequence of characters; *)
(* a character is a one-element TLA+ string, and a run of characters that  *)
(* contains none of & < > " ' may be held as one token ("#D4A574").        *)
(* Numbers are fixed-point, held in thousandths (Num(3500) is 3.5).        *)
(* A promise continuation (each await) is a separate step of a request.    *)
(***************************************************************************)
EXTENDS Integers, Sequences, FiniteSets, Bags, TLC

VARIABLES
    renderIn,       \* arguments of the pending generateMenuHTML call
    renderOut,      \* its outcome: not called, a document, or a raised error
    cafes,          \* table cafes: id -> row
    nextCafeId,     \* AUTOINCREMENT counter of cafes
    deployedFiles,  \* deployed/<slug>/index.html (served statically): slug -> document
    generatedFiles, \* deploy/<slug>/index.html (generateStaticFiles): slug -> document
    tasks,          \* in-flight cafe creations (position after each await)
    last,           \* the response of the request step just taken
    renderPrev,     \* arguments and result as they were before that call
    served,         \* the categories of the public menu response of that step
    categories,     \* table categories: id -> row
    items,          \* table menu_items: id -> row
    nextCatId,      \* AUTOINCREMENT counter of categories
    nextItemId,     \* AUTOINCREMENT counter of menu_items
    page,           \* a browser's view of a generated page: its active nav buttons
    users,          \* table users: id -> row
    nextUserId,     \* AUTOINCREMENT counter of users
    issued,         \* the payloads of the tokens that POST /login signed
    revoked,        \* history: the ids of users that were deactivated, and deleted
    auth,           \* the outcome of the authenticateToken call of the step just taken
    dbInit,         \* dbInitialized, dbInitPromise and the wrapper of database/init
    requests        \* the /api requests in flight: their position and their answer

vars == <<renderIn, renderOut, renderPrev, served, cafes, nextCafeId, deployedFiles, generatedFiles,
          tasks, last, categories, items, nextCatId, nextItemId, page,
          users, nextUserId, issued, revoked, auth, dbInit, requests>>

renderVars == <<renderIn, renderOut, renderPrev, served>>
cafeVars == <<cafes, nextCafeId, deployedFiles, tasks>>
menuVars == <<categories, items, nextCatId, nextItemId, generatedFiles>>
\* what lives outside the server's routes and the renderer
authVars == <<users, nextUserId, issued, revoked, auth>>
bootVars == <<dbInit, requests>>
outsideVars == <<page, authVars, bootVars>>

(***************************************************************************)
(* JavaScript values                                                       *)
(***************************************************************************)
JsUndefined == [t |-> "undefined"]
JsNull == [t |-> "null"]
JsNaN == [t |-> "nan"]
Str(s) == [t |-> "string", s |-> s]
Num(n) == [t |-> "number", n |-> n]
Arr(a) == [t |-> "array", a |-> a]

\* ToBoolean: undefined, null, NaN, "" and 0 are falsy, everything else truthy
Truthy(v) ==
    CASE v.t = "undefined" -> FALSE
      [] v.t = "null" -> FALSE
      [] v.t = "nan" -> FALSE
      [] v.t = "string" -> Len(v.s) > 0
      [] v.t = "number" -> v.n # 0
      [] OTHER -> TRUE

\* a || b
JsOr(a, b) == IF Truthy(a) THEN a ELSE b

RECURSIVE Digits(_)
\* decimal digits of a natural number
Digits(k) ==
    LET d == <<"0", "1", "2", "3", "4", "5", "6", "7", "8", "9">>[(k % 10) + 1]
    IN IF k < 10 THEN <<d>> ELSE Digits(k \div 10) \o <<d>>

RECURSIVE TrimZeros(_)
TrimZeros(s) ==
    IF Len(s) > 0 /\ s[Len(s)] = "0" THEN TrimZeros(SubSeq(s, 1, Len(s) - 1)) ELSE s

Pad(s, w) == IF Len(s) >= w THEN s ELSE [i \in 1..(w - Len(s)) |-> "0"] \o s

\* Number.prototype.toString of a fixed-point number held in thousandths
NumToString(n) ==
    LET m == IF n < 0 THEN 0 - n ELSE n
        frac == TrimZeros(Pad(Digits(m % 1000), 3))
        body == Digits(m \div 1000) \o (IF frac = <<>> THEN <<>> ELSE <<".">> \o frac)
    IN (IF n < 0 THEN <<"-">> ELSE <<>>) \o body

\* String(v), as a template literal interpolates a value
ToStr(v) ==
    CASE v.t = "undefined" -> <<"u", "n", "d", "e", "f", "i", "n", "e", "d">>
      [] v.t = "null" -> <<"n", "u", "l", "l">>
      [] v.t = "nan" -> <<"N", "a", "N">>
      [] v.t = "string" -> v.s
      [] v.t = "number" -> NumToString(v.n)
      [] OTHER -> <<"[object]">>

\* parseFloat(v): a number stays, null/undefined/non-numeric text give NaN
ParseFloat(v) == IF v.t = "number" THEN v ELSE JsNaN

\* Number.prototype.toFixed(2): rounds to hundredths, always two decimals
ToFixed2(v) ==
    IF v.t = "nan" THEN <<"N", "a", "N">>
    ELSE LET m == IF v.n < 0 THEN 0 - v.n ELSE v.n
             h == (m + 5) \div 10
         IN (IF v.n < 0 /\ h > 0 THEN <<"-">> ELSE <<>>)
            \o Digits(h \div 100) \o <<".">> \o Pad(Digits(h % 100), 2)

(***************************************************************************)
(* MenuGenerator.escapeHtml                                                *)
(***************************************************************************)
RECURSIVE ReplaceAll(_, _, _)
\* String.prototype.replace(/c/g, by) for a single character c
ReplaceAll(s, c, by) ==
    IF s = <<>> THEN <<>>
    ELSE (IF Head(s) = c THEN by ELSE <<Head(s)>>) \o ReplaceAll(Tail(s), c, by)

AmpEntity == <<"&", "a", "m", "p", ";">>
LtEntity == <<"&", "l", "t", ";">>
GtEntity == <<"&", "g", "t", ";">>
QuotEntity == <<"&", "q", "u", "o", "t", ";">>
AposEntity == <<"&", "#", "0", "3", "9", ";">>

\* the replace chain with & replaced last: entities of the earlier passes get re-escaped
EscapeChainAmpLast(s) ==
    ReplaceAll(ReplaceAll(ReplaceAll(ReplaceAll(ReplaceAll(s,
        "<", LtEntity), ">", GtEntity), "\"", QuotEntity), "'", AposEntity), "&", AmpEntity)

\* text.replace(/&/g,..).replace(/</g,..).replace(/>/g,..).replace(/"/g,..).replace(/'/g,..)
EscapeChain(s) ==
    ReplaceAll(ReplaceAll(ReplaceAll(ReplaceAll(ReplaceAll(s,
        "&", AmpEntity), "<", LtEntity), ">", GtEntity), "\"", QuotEntity), "'", AposEntity)

\* escapeHtml(text): falsy gives '', a string is escaped, any other truthy
\* value has no replace method and the call raises a TypeError
EscapeHtml(v) ==
    IF ~Truthy(v) THEN [threw |-> FALSE, out |-> <<>>]
    ELSE IF v.t = "string" THEN [threw |-> FALSE, out |-> EscapeChain(v.s)]
    ELSE [threw |-> TRUE, out |-> <<>>]

(***************************************************************************)
(* The rendered document: a sequence of parts.  A part is a piece of the   *)
(* template (slot "static", one token) or an interpolated value, named by  *)
(* the place of the template it fills; cat and item are the indexes of the *)
(* category section and item card the part belongs to (0: none).  A part   *)
(* of slot "THROW" marks an interpolation whose evaluation raised.         *)
(***************************************************************************)
Part(slot, text) == [slot |-> slot, text |-> text, cat |-> 0, item |-> 0]
St(tok) == <<Part("static", <<tok>>)>>
Fld(slot, text) == <<Part(slot, text)>>
ThrowPart == <<Part("THROW", <<>>)>>

\* ${this.escapeHtml(v)} at the place named slot
Esc(slot, v) == IF EscapeHtml(v).threw THEN ThrowPart ELSE Fld(slot, EscapeHtml(v).out)

RECURSIVE Flatten(_)
\* the document text: the parts' texts joined
Flatten(parts) == IF parts = <<>> THEN <<>> ELSE Head(parts).text \o Flatten(Tail(parts))

RECURSIVE ConcatAll(_)
\* Array.prototype.join('') of a sequence of part sequences
ConcatAll(ss) == IF ss = <<>> THEN <<>> ELSE Head(ss) \o ConcatAll(Tail(ss))

InCat(parts, c) == [k \in 1..Len(parts) |-> [parts[k] EXCEPT !.cat = c]]
InItem(parts, i) == [k \in 1..Len(parts) |-> [parts[k] EXCEPT !.item = i]]

\* the default literals of generateMenuHTML
DefaultPrimary == Str(<<"#D4A574">>)
DefaultSecondary == Str(<<"#8B7355">>)
DefaultAccent == Str(<<"#F5E6D3">>)
DefaultBackground == Str(<<"#FAF7F2">>)
DefaultText == Str(<<"#4A4A4A">>)
DefaultCurrency == Str(<<"Rs">>)
DefaultTagline == Str(<<"View our delicious menu">>)

\* a contact bar whose element is emitted even without any channel, website first
GenerateContactBarShell(cafe) ==
    LET phone == IF Truthy(cafe.phone)
                 THEN St("<a href=tel:") \o Fld("contact-phone-href", ToStr(cafe.phone))
                      \o St(" class=contact-item>") \o Esc("contact-phone", cafe.phone) \o St("</a>")
                 ELSE <<>>
        email == IF Truthy(cafe.email)
                 THEN St("<a href=mailto:") \o Fld("contact-email-href", ToStr(cafe.email))
                      \o St(" class=contact-item>Email Us</a>")
                 ELSE <<>>
        website == IF Truthy(cafe.website)
                   THEN St("<a href=") \o Fld("contact-website-href", ToStr(cafe.website))
                        \o St(" target=_blank class=contact-item>Website</a>")
                   ELSE <<>>
    IN St("<div class=contact-bar>") \o website \o phone \o email \o St("</div contact-bar>")

\* generateContactBar(cafe)
GenerateContactBar(cafe) ==
    LET phone == IF Truthy(cafe.phone)
                 THEN St("<a href=tel:") \o Fld("contact-phone-href", ToStr(cafe.phone))
                      \o St(" class=contact-item>") \o Esc("contact-phone", cafe.phone) \o St("</a>")
                 ELSE <<>>
        email == IF Truthy(cafe.email)
                 THEN St("<a href=mailto:") \o Fld("contact-email-href", ToStr(cafe.email))
                      \o St(" class=contact-item>Email Us</a>")
                 ELSE <<>>
        website == IF Truthy(cafe.website)
                   THEN St("<a href=") \o Fld("contact-website-href", ToStr(cafe.website))
                        \o St(" target=_blank class=contact-item>Website</a>")
                   ELSE <<>>
        contacts == phone \o email \o website
    IN IF contacts = <<>> THEN <<>>
       ELSE St("<div class=contact-bar>") \o contacts \o St("</div contact-bar>")

\* generateSocialLinks(cafe)
GenerateSocialLinks(cafe) ==
    LET insta == IF Truthy(cafe.instagram)
                 THEN St("<a href=https://instagram.com/") \o Fld("social-instagram", ToStr(cafe.instagram))
                      \o St(" class=social-link title=Instagram></a>")
                 ELSE <<>>
        fb == IF Truthy(cafe.facebook)
              THEN St("<a href=https://facebook.com/") \o Fld("social-facebook", ToStr(cafe.facebook))
                   \o St(" class=social-link title=Facebook></a>")
              ELSE <<>>
        links == insta \o fb
    IN IF links = <<>> THEN <<>>
       ELSE St("<div class=social-links>") \o links \o St("</div social-links>")

\* the badges pushed with the dietary ones first
ItemBadgesDietaryFirst(item) ==
    (IF Truthy(item.is_vegan) THEN Fld("badge", <<"badge-vegan">>) ELSE <<>>)
    \o (IF Truthy(item.is_vegetarian) THEN Fld("badge", <<"badge-vegetarian">>) ELSE <<>>)
    \o (IF Truthy(item.is_bestseller) THEN Fld("badge", <<"badge-bestseller">>) ELSE <<>>)
    \o (IF Truthy(item.is_new) THEN Fld("badge", <<"badge-new">>) ELSE <<>>)
    \o (IF Truthy(item.is_spicy) THEN Fld("badge", <<"badge-spicy">>) ELSE <<>>)
    \o (IF Truthy(item.is_gluten_free) THEN Fld("badge", <<"badge-gf">>) ELSE <<>>)

\* the badges array of generateItemHTML, in push order
ItemBadges(item) ==
    (IF Truthy(item.is_bestseller) THEN Fld("badge", <<"badge-bestseller">>) ELSE <<>>)
    \o (IF Truthy(item.is_new) THEN Fld("badge", <<"badge-new">>) ELSE <<>>)
    \o (IF Truthy(item.is_vegan) THEN Fld("badge", <<"badge-vegan">>) ELSE <<>>)
    \o (IF Truthy(item.is_vegetarian) THEN Fld("badge", <<"badge-vegetarian">>) ELSE <<>>)
    \o (IF Truthy(item.is_spicy) THEN Fld("badge", <<"badge-spicy">>) ELSE <<>>)
    \o (IF Truthy(item.is_gluten_free) THEN Fld("badge", <<"badge-gf">>) ELSE <<>>)

\* ${currency}${parseFloat(item.price).toFixed(2)}
ItemPriceText(item, currency) == ToStr(currency) \o ToFixed2(ParseFloat(item.price))

\* a card that strikes the original price through without its decimals
OriginalPriceHTMLRounded(item, currency) ==
    IF Truthy(item.original_price)
    THEN St("<span class=original-price>")
         \o Fld("item-original-price", ToStr(currency) \o ToStr(item.original_price))
         \o St("</span>")
    ELSE <<>>

\* ${item.original_price ? `<span class="original-price">...</span>` : ''}
OriginalPriceHTML(item, currency) ==
    IF Truthy(item.original_price)
    THEN St("<span class=original-price>")
         \o Fld("item-original-price", ToStr(currency) \o ToFixed2(ParseFloat(item.original_price)))
         \o St("</span>")
    ELSE <<>>

\* generateItemHTML(item, currency)
GenerateItemHTML(item, currency) ==
    LET badges == ItemBadges(item)
    IN St("<div class=menu-item>")
       \o (IF Truthy(item.image)
           THEN St("<img src=") \o Fld("item-image-src", ToStr(item.image)) \o St(" alt=")
                \o Esc("item-image-alt", item.name) \o St(" class=item-image>")
           ELSE St("<div class=item-placeholder></div>"))
       \o St("<div class=item-name>") \o Esc("item-name", item.name) \o St("</div item-name>")
       \o (IF Len(badges) > 0
           THEN St("<div class=item-badges>") \o badges \o St("</div item-badges>")
           ELSE <<>>)
       \o St("<div class=item-price>") \o Fld("item-price", ItemPriceText(item, currency))
       \o OriginalPriceHTML(item, currency)
       \o St("</div item-price>")
       \o (IF Truthy(item.description)
           THEN St("<p class=item-description>") \o Esc("item-description", item.description) \o St("</p>")
           ELSE <<>>)
       \o (IF Truthy(item.calories)
           THEN St("<p class=item-meta>") \o Fld("item-calories", ToStr(item.calories)) \o St(" cal</p>")
           ELSE <<>>)
       \o St("</div menu-item>")

\* the cards in reverse order, and nothing where a category has no item
CategoryItemsHTMLReversed(cat, currency) ==
    IF cat.items.t = "array" /\ Len(cat.items.a) > 0
    THEN ConcatAll([i \in 1..Len(cat.items.a) |->
                        InItem(GenerateItemHTML(cat.items.a[Len(cat.items.a) + 1 - i], currency),
                               Len(cat.items.a) + 1 - i)])
    ELSE IF cat.items.t = "string" /\ Len(cat.items.s) > 0 THEN ThrowPart
    ELSE <<>>

\* cat.items && cat.items.length > 0 ? cat.items.map(generateItemHTML).join('') : placeholder
\* (a non-empty string has a length but no map: TypeError; a number has no length)
CategoryItemsHTML(cat, currency) ==
    IF cat.items.t = "array" /\ Len(cat.items.a) > 0
    THEN ConcatAll([i \in 1..Len(cat.items.a) |->
                        InItem(GenerateItemHTML(cat.items.a[i], currency), i)])
    ELSE IF cat.items.t = "string" /\ Len(cat.items.s) > 0 THEN ThrowPart
    ELSE St("<div class=empty-state>No items in this category yet.</div>")

\* one button of the categories navigation
NavButtonHTML(cat, idx) ==
    St(IF idx = 1 THEN "<button class=category-btn active data-category=" ELSE "<button class=category-btn data-category=")
    \o Fld("nav-data-category", ToStr(cat.id)) \o St(">")
    \o Fld("nav-icon", ToStr(JsOr(cat.icon, Str(<<>>)))) \o Esc("nav-name", cat.name)
    \o St("</button>")

\* one category section
CategorySectionHTML(cat, currency) ==
    St("<section class=category-section id=category-") \o Fld("section-id", ToStr(cat.id)) \o St(">")
    \o St("<h2 class=category-title>")
    \o (IF Truthy(cat.icon)
        THEN St("<span class=category-icon>") \o Fld("category-icon", ToStr(cat.icon)) \o St("</span>")
        ELSE <<>>)
    \o Esc("category-name", cat.name) \o St("</h2>")
    \o (IF Truthy(cat.description)
        THEN St("<p>") \o Esc("category-description", cat.description) \o St("</p>")
        ELSE <<>>)
    \o St("<div class=menu-items>") \o CategoryItemsHTML(cat, currency) \o St("</div menu-items>")
    \o St("</section>")

\* a navigation bar rendered whatever the number of categories
CategoriesNavHTMLAlways(cats) ==
    St("<nav class=categories-nav>")
    \o ConcatAll([i \in 1..Len(cats) |-> InCat(NavButtonHTML(cats[i], i), i)])
    \o St("</nav>")

\* ${categories.length > 0 ? `<nav class="categories-nav">...</nav>` : ''}
CategoriesNavHTML(cats) ==
    IF Len(cats) > 0
    THEN St("<nav class=categories-nav>")
         \o ConcatAll([i \in 1..Len(cats) |-> InCat(NavButtonHTML(cats[i], i), i)])
         \o St("</nav>")
    ELSE <<>>

\* the template literal of generateMenuHTML, evaluated with a usable this
MenuTemplate(cafe, cats) ==
    LET theme == [primary |-> JsOr(cafe.primary_color, DefaultPrimary),
                  secondary |-> JsOr(cafe.secondary_color, DefaultSecondary),
                  accent |-> JsOr(cafe.accent_color, DefaultAccent),
                  background |-> JsOr(cafe.background_color, DefaultBackground),
                  text |-> JsOr(cafe.text_color, DefaultText)]
        currency == JsOr(cafe.currency, DefaultCurrency)
    IN St("<!DOCTYPE html><html><head>")
       \o St("<title>") \o Esc("title", cafe.name) \o St(" - Menu</title>")
       \o St("<meta name=description content=") \o Esc("meta-description", JsOr(cafe.tagline, DefaultTagline)) \o St(">")
       \o St("<style>:root{")
       \o St("--primary:") \o Fld("theme-primary", ToStr(theme.primary))
       \o St("--secondary:") \o Fld("theme-secondary", ToStr(theme.secondary))
       \o St("--accent:") \o Fld("theme-accent", ToStr(theme.accent))
       \o St("--background:") \o Fld("theme-background", ToStr(theme.background))
       \o St("--text:") \o Fld("theme-text", ToStr(theme.text))
       \o St("}</style></head><body><header class=header>")
       \o (IF Truthy(cafe.logo)
           THEN St("<img src=") \o Fld("logo-src", ToStr(cafe.logo)) \o St(" alt=")
                \o Esc("logo-alt", cafe.name) \o St(" class=logo>")
           ELSE St("<div class=logo-placeholder></div>"))
       \o St("<h1 class=cafe-name>") \o Esc("cafe-name", cafe.name) \o St("</h1>")
       \o (IF Truthy(cafe.tagline)
           THEN St("<p class=tagline>") \o Esc("tagline", cafe.tagline) \o St("</p>")
           ELSE <<>>)
       \o St("</header>")
       \o GenerateContactBar(cafe)
       \o CategoriesNavHTML(cats)
       \o St("<main class=menu-container>")
       \o (IF Len(cats) > 0
           THEN ConcatAll([i \in 1..Len(cats) |-> InCat(CategorySectionHTML(cats[i], currency), i)])
           ELSE St("<div class=empty-state><h3>Menu Coming Soon</h3></div>"))
       \o St("</main><footer class=footer>")
       \o St("<p>") \o Esc("footer-name", cafe.name) \o St("</p>")
       \o (IF Truthy(cafe.address)
           THEN St("<p>") \o Esc("footer-address", cafe.address) \o St("</p>")
           ELSE <<>>)
       \o GenerateSocialLinks(cafe)
       \o St("<p class=powered-by>Powered by QR Menu System</p></footer>")
       \o Fld("script-block", <<"<", "s", "c", "r", "i", "p", "t", ">">>) \o St("...</script></body></html>")

NotCalled == [called |-> FALSE]
NoRenderInput == [cafe |-> JsNull, categories |-> <<>>]
\* no call of generateMenuHTML came before the one of this step
NoEarlierCall == [in |-> NoRenderInput, out |-> NotCalled]
Raised == [called |-> TRUE, threw |-> TRUE]

\* no browser has loaded a page
NoPage == [active |-> {}, scrolled |-> 0, event |-> [kind |-> "none"]]

\* the users table after initializeDatabase: the default admin alone
AdminRow == [role |-> "admin", cafe_id |-> 0, is_active |-> 1]
NoAuthCall == [status |-> 0, token |-> [kind |-> "none"], user |-> [role |-> "none"]]
AuthInit ==
    /\ users = <<AdminRow>> /\ nextUserId = 2
    /\ issued = {}
    /\ revoked = [deactivated |-> {}, deleted |-> {}]
    /\ auth = NoAuthCall

\* the server once its database is ready and no request is in flight
BootDone ==
    /\ dbInit = [initialized |-> TRUE, promise |-> "fulfilled", starts |-> 1, wrapper |-> "ready"]
    /\ requests = <<>>

OutsideInit == page = NoPage /\ AuthInit /\ BootDone
Returned(doc) == [called |-> TRUE, threw |-> FALSE, doc |-> doc]

\* a renderer that stamps the document with whether it was called before
GenerateMenuHTMLStamped(thisArg, cafe, cats) ==
    IF thisArg = "undefined" THEN Raised
    ELSE LET parts == MenuTemplate(cafe, cats)
                          \o St(IF renderOut.called THEN "generated-again" ELSE "generated-first")
         IN IF \E k \in 1..Len(parts) : parts[k].slot = "THROW" THEN Raised ELSE Returned(parts)

\* generateMenuHTML(cafe, categories) called with this = thisArg.  The class
\* body is strict code: called as a plain function this is undefined and the
\* first this.escapeHtml raises.  An interpolation that raises aborts the
\* template: no document is returned.
GenerateMenuHTML(thisArg, cafe, cats) ==
    IF thisArg = "undefined" THEN Raised
    ELSE LET parts == MenuTemplate(cafe, cats)
         IN IF \E k \in 1..Len(parts) : parts[k].slot = "THROW" THEN Raised ELSE Returned(parts)

(***************************************************************************)
(* Inputs of the renderer.  Each family varies one part of a base record.  *)
(***************************************************************************)
MaxTextLen == 2
MaxCats == 2

EscAlphabet == {"a", "&", "<", ">", "\"", "'"}
ScriptText == <<"<", "s", "c", "r", "i", "p", "t", ">">>
TextsUpTo(n) == UNION {[1..k -> EscAlphabet] : k \in 0..n}
UserTexts == TextsUpTo(MaxTextLen) \cup {ScriptText, LtEntity, ScriptText \o <<"&">>}
FewTexts == {<<"a">>, <<"<", "&">>, ScriptText}

\* what an optional field can hold: absent, null, empty, text, or a number
OptionalValues == {JsUndefined, JsNull, Str(<<>>), Num(42000)} \cup {Str(t) : t \in FewTexts}
TextValues == {JsUndefined, JsNull, Num(42000)} \cup {Str(t) : t \in UserTexts}

BaseItem ==
    [name |-> Str(<<"L", "a", "t", "t", "e">>), description |-> Str(<<>>), price |-> Num(4000),
     original_price |-> JsNull, image |-> JsNull, calories |-> JsNull,
     is_bestseller |-> Num(0), is_new |-> Num(0), is_vegan |-> Num(0),
     is_vegetarian |-> Num(0), is_spicy |-> Num(0), is_gluten_free |-> Num(0)]

PriceValues == {JsNull, JsUndefined, Num(0), Num(3000), Num(3500), Num(12344), Num(999)}
FlagValues == {Num(0), Num(1)}

ItemInputs ==
    {[BaseItem EXCEPT !.name = v] : v \in TextValues \ {Num(42000)}}
    \cup {[BaseItem EXCEPT !.description = v] : v \in TextValues}
    \cup {[BaseItem EXCEPT !.price = p, !.original_price = o] : p \in PriceValues, o \in {JsNull, Num(5000)}}
    \cup {[BaseItem EXCEPT !.original_price = o] : o \in {JsUndefined, Num(0), Num(4500), Num(12344)}}
    \cup {[BaseItem EXCEPT !.image = v, !.calories = c] :
             v \in {JsNull, Str(<<"/uploads/items/1.png">>)}, c \in {JsNull, Num(0), Num(250000)}}
    \cup {[BaseItem EXCEPT !.is_bestseller = b[1], !.is_new = b[2], !.is_vegan = b[3],
                           !.is_vegetarian = b[4], !.is_spicy = b[5], !.is_gluten_free = b[6]] :
             b \in [1..6 -> FlagValues]}

BaseCategory ==
    [id |-> Num(1000), name |-> Str(<<"D", "r", "i", "n", "k", "s">>), icon |-> Str(<<"cup">>),
     description |-> JsNull, items |-> Arr(<<BaseItem>>)]

CategoryInputs ==
    {[BaseCategory EXCEPT !.name = v] : v \in TextValues \ {Num(42000)}}
    \cup {[BaseCategory EXCEPT !.description = v] : v \in TextValues}
    \cup {[BaseCategory EXCEPT !.icon = v] : v \in {JsUndefined, JsNull, Str(<<>>), Str(<<"cup">>)}}
    \cup {[BaseCategory EXCEPT !.items = Arr(<<i>>)] : i \in ItemInputs}
    \cup {[BaseCategory EXCEPT !.items = v] :
             v \in {JsUndefined, JsNull, Arr(<<>>), Str(<<"a", "b">>), Num(5000),
                    Arr(<<BaseItem, [BaseItem EXCEPT !.name = Str(ScriptText), !.is_vegan = Num(1)]>>)}}

SecondCategories ==
    {[BaseCategory EXCEPT !.id = Num(2000), !.name = Str(t), !.items = v] :
         t \in FewTexts, v \in {Arr(<<>>), Arr(<<BaseItem>>)}}

\* category lists of length 0 .. MaxCats
RECURSIVE CategoryLists(_)
CategoryLists(n) ==
    IF n = 0 THEN {<<>>}
    ELSE IF n = 1 THEN {<<>>} \cup {<<c>> : c \in CategoryInputs}
    ELSE CategoryLists(n - 1)
         \cup {Append(l, c) : l \in {m \in CategoryLists(n - 1) : Len(m) = n - 1 /\ m[1] \in {BaseCategory}},
                              c \in SecondCategories}

BaseCafe ==
    [name |-> Str(<<"V", "e", "r", "d", "e">>), slug |-> Str(<<"verde">>),
     tagline |-> JsNull, logo |-> JsNull, phone |-> JsNull, email |-> JsNull,
     website |-> JsNull, address |-> JsNull, instagram |-> JsNull, facebook |-> JsNull,
     currency |-> JsNull, primary_color |-> JsNull, secondary_color |-> JsNull,
     accent_color |-> JsNull, background_color |-> JsNull, text_color |-> JsNull]

ColorValues == {JsUndefined, Str(<<>>), Str(<<"#111111">>)}
ContactValues == {JsNull, Str(<<>>), Str(<<"x">>)}

CafeInputs ==
    {[BaseCafe EXCEPT !.name = v] : v \in TextValues \ {Num(42000)}}
    \cup {[BaseCafe EXCEPT !.slug = v] : v \in {JsUndefined, JsNull, Str(<<>>)}}
    \cup {[BaseCafe EXCEPT !.tagline = v] : v \in TextValues}
    \cup {[BaseCafe EXCEPT !.address = v] : v \in TextValues}
    \cup {[BaseCafe EXCEPT !.logo = v] : v \in OptionalValues}
    \cup {[BaseCafe EXCEPT !.currency = v] : v \in {JsUndefined, Str(<<>>), Str(<<"$">>)}}
    \cup {[BaseCafe EXCEPT !.phone = p, !.email = e, !.website = w] :
             p \in ContactValues, e \in ContactValues, w \in ContactValues}
    \cup {[BaseCafe EXCEPT !.instagram = i, !.facebook = f] : i \in ContactValues, f \in ContactValues}
    \cup {[BaseCafe EXCEPT !.primary_color = c[1], !.secondary_color = c[2], !.accent_color = c[3],
                           !.background_color = c[4], !.text_color = c[5]] :
             c \in [1..5 -> {JsUndefined, Str(<<"#111111">>)}]}
    \cup {[BaseCafe EXCEPT !.primary_color = v] : v \in ColorValues}

FewCategoryLists == {<<>>, <<BaseCategory>>}
FewCafes == {BaseCafe, [BaseCafe EXCEPT !.name = Str(ScriptText), !.currency = Str(<<"$">>)]}

RenderInputs ==
    {[cafe |-> c, categories |-> l] : c \in CafeInputs, l \in FewCategoryLists}
    \cup {[cafe |-> c, categories |-> l] : c \in FewCafes, l \in CategoryLists(MaxCats)}

(***************************************************************************)
(* Specification of the renderer alone: generateMenuHTML is called, as a   *)
(* method of the exported generator, on one of the inputs.                 *)
(***************************************************************************)
EmptyTable == [i \in {} |-> 0]
NoResponse == [op |-> "none", status |-> 0, cafe |-> 0, info |-> "none", log |-> "none"]

InitRender ==
    /\ renderIn \in RenderInputs
    /\ renderOut = NotCalled
    /\ renderPrev = NoEarlierCall
    /\ OutsideInit
    /\ served = <<>>
    /\ cafes = EmptyTable /\ nextCafeId = 1
    /\ deployedFiles = EmptyTable /\ generatedFiles = EmptyTable
    /\ tasks = EmptyBag /\ last = NoResponse
    /\ categories = EmptyTable /\ items = EmptyTable
    /\ nextCatId = 1 /\ nextItemId = 1

\* menuGenerator.generateMenuHTML(cafe, categories)
CallGenerateMenuHTML ==
    /\ renderPrev' = [in |-> renderIn, out |-> renderOut]
    /\ renderOut' = GenerateMenuHTML("generator", renderIn.cafe, renderIn.categories)
    /\ UNCHANGED <<renderIn, served, cafeVars, menuVars, last, outsideVars>>

NextRender == CallGenerateMenuHTML

SpecRender == InitRender /\ [][NextRender]_vars

(***************************************************************************)
(* Properties of the renderer                                              *)
(***************************************************************************)
\* the entity of one source character
CharEntity(c) ==
    CASE c = "&" -> AmpEntity
      [] c = "<" -> LtEntity
      [] c = ">" -> GtEntity
      [] c = "\"" -> QuotEntity
      [] c = "'" -> AposEntity
      [] OTHER -> <<c>>

RECURSIVE EscapeEachOnce(_)
\* every source character replaced by its entity, exactly once
EscapeEachOnce(s) == IF s = <<>> THEN <<>> ELSE CharEntity(Head(s)) \o EscapeEachOnce(Tail(s))

TextOf(v) == IF v.t = "string" THEN v.s ELSE <<>>

IsSubAt(s, sub, i) == i + Len(sub) - 1 <= Len(s) /\ SubSeq(s, i, i + Len(sub) - 1) = sub
Occurrences(s, sub) == {i \in 1..Len(s) : IsSubAt(s, sub, i)}
Contains(s, sub) == Occurrences(s, sub) # {}

CafeNameSlots == {"title", "logo-alt", "cafe-name", "footer-name"}
UserTextSlots ==
    CafeNameSlots \cup {"meta-description", "tagline", "footer-address", "nav-name", "category-name",
                        "category-description", "item-image-alt", "item-name", "item-description"}

\* the field of the input that the part at a user-text slot shows
SlotSource(in, part) ==
    LET cat == in.categories[part.cat]
        item == cat.items.a[part.item]
    IN CASE part.slot \in CafeNameSlots -> in.cafe.name
         [] part.slot = "meta-description" -> JsOr(in.cafe.tagline, DefaultTagline)
         [] part.slot = "tagline" -> in.cafe.tagline
         [] part.slot = "footer-address" -> in.cafe.address
         [] part.slot \in {"nav-name", "category-name"} -> cat.name
         [] part.slot = "category-description" -> cat.description
         [] part.slot \in {"item-image-alt", "item-name"} -> item.name
         [] part.slot = "item-description" -> item.description

\* offset in the document text of the part at index k
PartOffset(doc, k) == Len(Flatten(SubSeq(doc, 1, k - 1))) + 1

EscapedScript == LtEntity \o <<"s", "c", "r", "i", "p", "t">> \o GtEntity

RenderReturned == renderOut.called /\ ~renderOut.threw

\* C1: every occurrence of a user-controlled text field in the document is
\* that field with each character escaped exactly once (& first); a cafe name
\* containing <script> shows as &lt;script&gt; and the raw text <script>
\* occurs only at the document's own script block
C1_UserTextEscapedOnce ==
    RenderReturned =>
        LET doc == renderOut.doc
            text == Flatten(doc)
        IN /\ \A k \in 1..Len(doc) :
                  doc[k].slot \in UserTextSlots =>
                      doc[k].text = EscapeEachOnce(TextOf(SlotSource(renderIn, doc[k])))
           /\ {"title", "cafe-name", "footer-name"} \subseteq {doc[k].slot : k \in 1..Len(doc)}
           /\ Contains(TextOf(renderIn.cafe.name), ScriptText) =>
                  /\ \A k \in 1..Len(doc) :
                         doc[k].slot \in CafeNameSlots => Contains(doc[k].text, EscapedScript)
                  /\ Occurrences(text, ScriptText)
                         = {PartOffset(doc, k) : k \in {j \in 1..Len(doc) : doc[j].slot = "script-block"}}

\* C1 witness: a document rendered for a cafe named <script> with a category
C1_Witness ==
    /\ RenderReturned
    /\ renderIn.cafe.name = Str(ScriptText)
    /\ Len(renderIn.categories) > 0

HasIdentity(cafe) ==
    /\ cafe.name.t = "string" /\ Truthy(cafe.name)
    /\ cafe.slug.t = "string" /\ Truthy(cafe.slug)

\* C6: for a cafe with a name and a slug the renderer never raises, whatever
\* the optional fields hold
C6_RendererNeverRaises ==
    (renderOut.called /\ HasIdentity(renderIn.cafe)) => ~renderOut.threw

\* C7: a cafe record without a name or without a slug makes the renderer
\* fail and emit no document; with both present, absent optional fields never fail
C7_FailsFastWithoutIdentity ==
    renderOut.called =>
        /\ ~HasIdentity(renderIn.cafe) => renderOut.threw
        /\ (HasIdentity(renderIn.cafe)
            /\ \A f \in DOMAIN renderIn.cafe : renderIn.cafe[f].t \in {"undefined", "null", "string"}
            /\ renderIn.categories = <<>>) => ~renderOut.threw

\* the document has the template's element tok
HasStatic(doc, tok) == \E k \in DOMAIN doc : doc[k].slot = "static" /\ doc[k].text = <<tok>>

ComingSoonState == "<div class=empty-state><h3>Menu Coming Soon</h3></div>"
CategoriesNav == "<nav class=categories-nav>"
CategorySection == "<section class=category-section id=category-"
NoItemsPlaceholder == "<div class=empty-state>No items in this category yet.</div>"

\* C17: rendered with zero categories, the document has the "coming soon"
\* empty state and neither a categories navigation nor a category section;
\* rendered with one or more categories it has no "coming soon" empty state.
C17_EmptyCategoriesState ==
    RenderReturned =>
        IF Len(renderIn.categories) = 0
        THEN /\ HasStatic(renderOut.doc, ComingSoonState)
             /\ ~HasStatic(renderOut.doc, CategoriesNav)
             /\ ~HasStatic(renderOut.doc, CategorySection)
        ELSE ~HasStatic(renderOut.doc, ComingSoonState)

\* a document was rendered for zero categories
C17_Witness ==
    /\ RenderReturned
    /\ Len(renderIn.categories) = 0
    /\ HasStatic(renderOut.doc, ComingSoonState)

ItemCard == "<div class=menu-item>"

\* the parts of the document that belong to the category at index c
PartsOfCategory(doc, c) == SelectSeq(doc, LAMBDA part : part.cat = c)

\* the item indexes of the cards of the category at index c, in document order
CardsOfCategory(doc, c) ==
    LET cards == SelectSeq(PartsOfCategory(doc, c),
                           LAMBDA part : part.slot = "static" /\ part.text = <<ItemCard>>)
    IN [k \in 1..Len(cards) |-> cards[k].item]

\* the number of items of a category (0 when the list is absent)
ItemCount(cat) == IF cat.items.t = "array" THEN Len(cat.items.a) ELSE 0

\* C18: a category with no item (an empty or absent list) has its section with
\* the "no items yet" placeholder and no card, and the navigation lists it; a
\* category with items has one card per item, in the order of the list, with
\* the item's escaped name, and no placeholder.
C18_EmptyCategoryPlaceholder ==
    RenderReturned =>
        \A c \in DOMAIN renderIn.categories :
            LET cat == renderIn.categories[c]
                parts == PartsOfCategory(renderOut.doc, c)
                names == SelectSeq(parts, LAMBDA part : part.slot = "item-name")
            IN /\ HasStatic(parts, CategorySection)
               /\ \E k \in DOMAIN parts :
                      parts[k].slot = "nav-data-category" /\ parts[k].text = ToStr(cat.id)
               /\ CardsOfCategory(renderOut.doc, c) = [k \in 1..ItemCount(cat) |-> k]
               /\ HasStatic(parts, NoItemsPlaceholder) <=> ItemCount(cat) = 0
               /\ Len(names) = ItemCount(cat)
               /\ \A k \in DOMAIN names :
                      names[k].item = k /\ names[k].text = EscapeHtml(cat.items.a[k].name).out

\* a document was rendered for a category whose item list is absent
C18_Witness ==
    /\ RenderReturned
    /\ \E c \in DOMAIN renderIn.categories :
           /\ renderIn.categories[c].items = JsUndefined
           /\ HasStatic(PartsOfCategory(renderOut.doc, c), NoItemsPlaceholder)

\* the six flags and their badges, in the order the claim fixes
BadgeOrder ==
    <<[flag |-> "is_bestseller", badge |-> "badge-bestseller"],
      [flag |-> "is_new", badge |-> "badge-new"],
      [flag |-> "is_vegan", badge |-> "badge-vegan"],
      [flag |-> "is_vegetarian", badge |-> "badge-vegetarian"],
      [flag |-> "is_spicy", badge |-> "badge-spicy"],
      [flag |-> "is_gluten_free", badge |-> "badge-gf"]>>

\* the badges of the flags of item that are true, in that order
ExpectedBadges(item) ==
    LET on == SelectSeq(BadgeOrder, LAMBDA b : Truthy(item[b.flag]))
    IN [k \in 1..Len(on) |-> <<on[k].badge>>]

\* the parts of the card of item i of the category at index c
PartsOfItem(doc, c, i) == SelectSeq(doc, LAMBDA part : part.cat = c /\ part.item = i)

BadgeRow == "<div class=item-badges>"

\* C19: the badge row of every card holds exactly the badges of the flags that
\* are true, in the order bestseller, new, vegan, vegetarian, spicy,
\* gluten-free, and the card has no badge row when no flag is true.
C19_BadgesInFixedOrder ==
    RenderReturned =>
        \A c \in DOMAIN renderIn.categories :
            \A i \in 1..ItemCount(renderIn.categories[c]) :
                LET item == renderIn.categories[c].items.a[i]
                    parts == PartsOfItem(renderOut.doc, c, i)
                    shown == SelectSeq(parts, LAMBDA part : part.slot = "badge")
                IN /\ [k \in 1..Len(shown) |-> shown[k].text] = ExpectedBadges(item)
                   /\ HasStatic(parts, BadgeRow) <=> ExpectedBadges(item) # <<>>

\* a card was rendered for an item that is new, vegan and spicy but none of
\* the other three
C19_Witness ==
    /\ RenderReturned
    /\ \E c \in DOMAIN renderIn.categories :
           \E i \in 1..ItemCount(renderIn.categories[c]) :
               /\ ExpectedBadges(renderIn.categories[c].items.a[i])
                      = << <<"badge-new">>, <<"badge-vegan">>, <<"badge-spicy">> >>
               /\ HasStatic(PartsOfItem(renderOut.doc, c, i), BadgeRow)

DigitChars == {"0", "1", "2", "3", "4", "5", "6", "7", "8", "9"}

\* digits, a point, two digits
TwoDecimals(s) ==
    /\ Len(s) >= 4
    /\ s[Len(s) - 2] = "."
    /\ \A k \in (1..Len(s)) \ {Len(s) - 2} : s[k] \in DigitChars

StruckPrice == "<span class=original-price>"

\* an item has an original price when the field holds a number other than 0
\* (0, null and an absent field are no original price)
HasOriginalPrice(item) == item.original_price.t = "number" /\ item.original_price.n # 0

\* C20: the card of an item with an original price shows both prices, the
\* original one struck through as the currency symbol followed by the value
\* with exactly two decimals; the card of an item without one shows no
\* struck-through price.
C20_OriginalPriceStruckThrough ==
    RenderReturned =>
        \A c \in DOMAIN renderIn.categories :
            \A i \in 1..ItemCount(renderIn.categories[c]) :
                LET item == renderIn.categories[c].items.a[i]
                    parts == PartsOfItem(renderOut.doc, c, i)
                    currency == ToStr(JsOr(renderIn.cafe.currency, DefaultCurrency))
                    struck == SelectSeq(parts, LAMBDA part : part.slot = "item-original-price")
                    prices == SelectSeq(parts, LAMBDA part : part.slot = "item-price")
                IN /\ Len(prices) = 1
                   /\ IF HasOriginalPrice(item)
                      THEN /\ HasStatic(parts, StruckPrice)
                           /\ Len(struck) = 1
                           /\ IsSubAt(struck[1].text, currency, 1)
                           /\ TwoDecimals(SubSeq(struck[1].text, Len(currency) + 1,
                                                 Len(struck[1].text)))
                           /\ struck[1].text = currency \o ToFixed2(item.original_price)
                      ELSE ~HasStatic(parts, StruckPrice) /\ struck = <<>>

\* a card was rendered with the original price 12.344 struck through
C20_Witness ==
    /\ RenderReturned
    /\ \E c \in DOMAIN renderIn.categories :
           \E i \in 1..ItemCount(renderIn.categories[c]) :
               /\ renderIn.categories[c].items.a[i].original_price = Num(12344)
               /\ \E k \in DOMAIN renderOut.doc :
                      /\ renderOut.doc[k].slot = "item-original-price"
                      /\ renderOut.doc[k].text = <<"$", "1", "2", ".", "3", "4">>

\* the DEFAULT clauses of the five color columns of the cafes table
CafeColorDefaults ==
    [primary |-> <<"#2C5F2D">>, secondary |-> <<"#97BC62">>, accent |-> <<"#DAA520">>,
     background |-> <<"#FDFBF7">>, text |-> <<"#2D3436">>]

\* the color fields of the cafe argument, by custom property
CafeColors(cafe) ==
    [primary |-> cafe.primary_color, secondary |-> cafe.secondary_color,
     accent |-> cafe.accent_color, background |-> cafe.background_color,
     text |-> cafe.text_color]

ThemeProperties == {"primary", "secondary", "accent", "background", "text"}

\* the values the document gives the custom property p
ThemeValues(doc, p) ==
    {doc[k].text : k \in {j \in DOMAIN doc : doc[j].slot = "theme-" \o p}}

\* C21: each of the five :root custom properties is emitted once, with the
\* color of the cafe when that field is set and with the default of the cafe
\* record for that field when it is unset or empty, and never with an empty
\* or undefined value.
C21_ThemeUsesRecordDefaults ==
    RenderReturned =>
        \A p \in ThemeProperties :
            LET color == CafeColors(renderIn.cafe)[p]
            IN /\ ThemeValues(renderOut.doc, p) =
                      {IF Truthy(color) THEN ToStr(color) ELSE CafeColorDefaults[p]}
               /\ <<>> \notin ThemeValues(renderOut.doc, p)
               /\ ToStr(JsUndefined) \notin ThemeValues(renderOut.doc, p)

ContactBar == "<div class=contact-bar>"

\* the three contact channels in the order of the bar: the field, the slot of
\* its link target, the text before the target and the text after it
ContactChannels ==
    <<[field |-> "phone", slot |-> "contact-phone-href", open |-> "<a href=tel:",
       close |-> " class=contact-item>"],
      [field |-> "email", slot |-> "contact-email-href", open |-> "<a href=mailto:",
       close |-> " class=contact-item>Email Us</a>"],
      [field |-> "website", slot |-> "contact-website-href", open |-> "<a href=",
       close |-> " target=_blank class=contact-item>Website</a>"]>>

\* the channels of cafe that are not empty, in that order
PresentChannels(cafe) == SelectSeq(ContactChannels, LAMBDA ch : Truthy(cafe[ch.field]))

\* the indexes of the link targets of the contact bar, in document order
RECURSIVE ContactLinksFrom(_, _)
ContactLinksFrom(doc, k) ==
    IF k > Len(doc) THEN <<>>
    ELSE (IF doc[k].slot \in {ContactChannels[c].slot : c \in 1..3} THEN <<k>> ELSE <<>>)
         \o ContactLinksFrom(doc, k + 1)

\* C22: the contact bar has a link for exactly those of phone, email and
\* website that are not empty, in that order (tel: link, mailto: link labelled
\* "Email Us", external link), and the bar is absent when all three are empty.
C22_ContactBarShowsPresentChannels ==
    RenderReturned =>
        LET doc == renderOut.doc
            present == PresentChannels(renderIn.cafe)
            links == ContactLinksFrom(doc, 1)
        IN /\ HasStatic(doc, ContactBar) <=> present # <<>>
           /\ Len(links) = Len(present)
           /\ \A n \in DOMAIN links :
                  LET k == links[n]
                  IN /\ doc[k].slot = present[n].slot
                     /\ doc[k].text = ToStr(renderIn.cafe[present[n].field])
                     /\ doc[k - 1].text = <<present[n].open>>
                     /\ doc[k + 1].text = <<present[n].close>>

\* a document was rendered for a cafe with an email and a website but an
\* empty phone
C22_Witness ==
    /\ RenderReturned
    /\ renderIn.cafe.phone = Str(<<>>)
    /\ Len(PresentChannels(renderIn.cafe)) = 2
    /\ HasStatic(renderOut.doc, ContactBar)

ActiveButton == "<button class=category-btn active data-category="

\* document.querySelectorAll('.category-btn'): data-category and the class
\* active of each button as the document gives them
NavButtons(doc) ==
    LET ids == SelectSeq(doc, LAMBDA part : part.slot = "nav-data-category")
    IN [b \in 1..Len(ids) |->
           [category |-> ids[b].text,
            active |-> HasStatic(PartsOfCategory(doc, ids[b].cat), ActiveButton)]]

\* document.querySelectorAll('.category-section'): the id of each section
PageSections(doc) ==
    LET ids == SelectSeq(doc, LAMBDA part : part.slot = "section-id")
    IN [n \in 1..Len(ids) |-> <<"category-">> \o ids[n].text]

\* String.prototype.replace(tok, ''): the first occurrence of tok removed
RECURSIVE RemoveFirst(_, _)
RemoveFirst(str, tok) ==
    IF str = <<>> THEN <<>>
    ELSE IF Head(str) = tok THEN Tail(str)
    ELSE <<Head(str)>> \o RemoveFirst(Tail(str), tok)

\* the page as the browser shows it after parsing the document
LoadedPage(doc) ==
    [active |-> {b \in DOMAIN NavButtons(doc) : NavButtons(doc)[b].active},
     scrolled |-> 0, event |-> [kind |-> "load"]]

\* btn.classList.add('active') for the button of the section, on top of
\* whatever is active
ToggleActiveAddOnly(buttons, active, categoryId) ==
    active \cup {b \in DOMAIN buttons : buttons[b].category = categoryId}

\* forEach(btn => btn.classList.toggle('active', btn.dataset.category === categoryId))
ToggleActive(buttons, active, categoryId) ==
    {b \in DOMAIN buttons : buttons[b].category = categoryId}

\* the observer callback over its entries, in order
RECURSIVE ObserverCallback(_, _, _, _)
ObserverCallback(buttons, sections, active, entries) ==
    IF entries = <<>> THEN active
    ELSE ObserverCallback(buttons, sections,
             IF Head(entries).isIntersecting
             THEN ToggleActive(buttons, active,
                               RemoveFirst(sections[Head(entries).section], "category-"))
             ELSE active,
             Tail(entries))

\* click on the nav button b
ClickCategory(b) ==
    LET buttons == NavButtons(renderOut.doc)
        sections == PageSections(renderOut.doc)
        found == {n \in DOMAIN sections : sections[n] = <<"category-">> \o buttons[b].category}
    IN /\ b \in DOMAIN buttons
       /\ page' = [active |-> {b},
                   scrolled |-> IF found = {} THEN page.scrolled
                                ELSE CHOOSE n \in found : \A m \in found : n <= m,
                   event |-> [kind |-> "click", button |-> b]]
       /\ UNCHANGED <<renderVars, cafeVars, menuVars, last, authVars, bootVars>>

\* the observer reports entries: sections that crossed the threshold
ObserveIntersections(entries) ==
    LET buttons == NavButtons(renderOut.doc)
        sections == PageSections(renderOut.doc)
    IN /\ entries # <<>>
       /\ \A k \in DOMAIN entries : entries[k].section \in DOMAIN sections
       /\ page' = [active |-> ObserverCallback(buttons, sections, page.active, entries),
                   scrolled |-> page.scrolled,
                   event |-> [kind |-> "intersect", entries |-> entries]]
       /\ UNCHANGED <<renderVars, cafeVars, menuVars, last, authVars, bootVars>>

\* the stored categories a page is generated from: distinct ids, in any order
RECURSIVE DistinctIdLists(_)
DistinctIdLists(n) ==
    IF n = 0 THEN {<<>>}
    ELSE DistinctIdLists(n - 1)
         \cup {Append(l, k) : l \in {m \in DistinctIdLists(n - 1) : Len(m) = n - 1},
                              k \in 1..(MaxCats + 1)}
PageCategoryLists ==
    {[k \in 1..Len(l) |-> [BaseCategory EXCEPT !.id = Num(l[k] * 1000)]] :
         l \in {m \in DistinctIdLists(MaxCats) : \A i, j \in DOMAIN m : i # j => m[i] # m[j]}}

ObserverEntries ==
    LET one == [section : 1..MaxCats, isIntersecting : BOOLEAN]
    IN {<<e>> : e \in one} \cup {<<e, f>> : e \in one, f \in one}

InitPage ==
    /\ renderIn \in {[cafe |-> BaseCafe, categories |-> l] : l \in PageCategoryLists}
    /\ renderOut = GenerateMenuHTML("generator", renderIn.cafe, renderIn.categories)
    /\ renderPrev = NoEarlierCall
    /\ served = <<>>
    /\ page = LoadedPage(renderOut.doc)
    /\ AuthInit /\ BootDone
    /\ cafes = EmptyTable /\ nextCafeId = 1
    /\ deployedFiles = EmptyTable /\ generatedFiles = EmptyTable
    /\ tasks = EmptyBag /\ last = NoResponse
    /\ categories = EmptyTable /\ items = EmptyTable
    /\ nextCatId = 1 /\ nextItemId = 1

NextPage ==
    \/ \E b \in 1..MaxCats : ClickCategory(b)
    \/ \E entries \in ObserverEntries : ObserveIntersections(entries)

SpecPage == InitPage /\ [][NextPage]_vars

\* the section the last intersecting entry of the step reports (0: none)
LastIntersecting(entries) ==
    LET hits == {k \in DOMAIN entries : entries[k].isIntersecting}
    IN IF hits = {} THEN 0
       ELSE entries[CHOOSE k \in hits : \A j \in hits : j <= k].section

\* C23: a page with at least one category has exactly one active nav button
\* at all times: the first one when loaded, the clicked one after a click
\* (whose section is the one scrolled to), and after an intersection the
\* button of the section that became visible.
C23_OneActiveButton ==
    LET buttons == NavButtons(renderOut.doc)
    IN Len(renderIn.categories) > 0 =>
           /\ Cardinality(page.active) = 1
           /\ page.event.kind = "load" => page.active = {1}
           /\ page.event.kind = "click" =>
                  /\ page.active = {page.event.button}
                  /\ page.scrolled = page.event.button
           /\ (page.event.kind = "intersect" /\ LastIntersecting(page.event.entries) # 0) =>
                  page.active = {LastIntersecting(page.event.entries)}

\* the second section became visible while the first button was active
C23_Witness ==
    /\ page.event.kind = "intersect"
    /\ LastIntersecting(page.event.entries) = 2
    /\ page.active = {2}
    /\ page.scrolled = 1

(***************************************************************************)
(* Tables, requesters and responses of the service                         *)
(***************************************************************************)
MaxCafeId == 2

InsertRow(tbl, id, row) == [i \in DOMAIN tbl \cup {id} |-> IF i = id THEN row ELSE tbl[i]]
DeleteRows(tbl, ids) == [i \in DOMAIN tbl \ ids |-> tbl[i]]

\* a response, and log: the action of the activity_log row the request inserted
Resp(op, status, cafe, info) ==
    [op |-> op, status |-> status, cafe |-> cafe, info |-> info, log |-> "none"]
Logged(resp, action) == [resp EXCEPT !.log = action]

\* a step that neither calls generateMenuHTML nor serves a public menu
NoRenderCall ==
    /\ renderIn' = NoRenderInput /\ renderOut' = NotCalled /\ renderPrev' = NoEarlierCall
    /\ served' = <<>>
    /\ UNCHANGED outsideVars

\* req.user as authenticateToken leaves it: the users row (role, cafe_id; 0 is NULL)
Admin == [role |-> "admin", cafe_id |-> 0]
Owner(c) == [role |-> "owner", cafe_id |-> c]
Requesters == {Admin, Owner(1)}

\* requireAdmin
RequireAdmin(user) == user.role = "admin"

\* requireCafeAccess: cafeId = req.params.cafeId || req.body.cafeId (0: absent,
\* parseInt gives NaN, which equals nothing)
RequireCafeAccess(user, paramsCafeId, bodyCafeId) ==
    LET cafeId == IF paramsCafeId # 0 THEN paramsCafeId ELSE bodyCafeId
    IN user.role = "admin" \/ (cafeId # 0 /\ user.cafe_id = cafeId)

(***************************************************************************)
(* generateSlug                                                            *)
(***************************************************************************)
UpperLetters == <<"A", "B", "C", "M", "N">>
LowerLetters == <<"a", "b", "c", "m", "n">>
SlugAlnum == {"a", "b", "c", "e", "f", "m", "n", "w", "y",
              "0", "1", "2", "3", "4", "5", "6", "7", "8", "9"}

\* toLowerCase of one character
LowerChar(c) ==
    IF \E k \in 1..Len(UpperLetters) : UpperLetters[k] = c
    THEN LowerLetters[CHOOSE k \in 1..Len(UpperLetters) : UpperLetters[k] = c]
    ELSE c

ToLowerCase(s) == [k \in 1..Len(s) |-> LowerChar(s[k])]

RECURSIVE DropWhileNot(_)
\* skips the leading characters outside [a-z0-9]
DropWhileNot(s) == IF s # <<>> /\ Head(s) \notin SlugAlnum THEN DropWhileNot(Tail(s)) ELSE s

RECURSIVE ReplaceNonAlnumRuns(_)
\* replace(/[^a-z0-9]+/g, '-')
ReplaceNonAlnumRuns(s) ==
    IF s = <<>> THEN <<>>
    ELSE IF Head(s) \in SlugAlnum THEN <<Head(s)>> \o ReplaceNonAlnumRuns(Tail(s))
    ELSE <<"-">> \o ReplaceNonAlnumRuns(DropWhileNot(s))

RECURSIVE CollapseHyphens(_)
\* replace(/-+/g, '-')
CollapseHyphens(s) ==
    IF Len(s) < 2 THEN s
    ELSE IF s[1] = "-" /\ s[2] = "-" THEN CollapseHyphens(Tail(s))
    ELSE <<Head(s)>> \o CollapseHyphens(Tail(s))

\* replace(/^-|-$/g, ''): one leading and one trailing hyphen
TrimHyphens(s) ==
    LET a == IF s # <<>> /\ Head(s) = "-" THEN Tail(s) ELSE s
    IN IF a # <<>> /\ a[Len(a)] = "-" THEN SubSeq(a, 1, Len(a) - 1) ELSE a

\* the first statement of generateSlug: the slug before any counter suffix
SlugBase(name) == TrimHyphens(CollapseHyphens(ReplaceNonAlnumRuns(ToLowerCase(name))))

\* `${original}-${counter}`
SlugWithCounter(original, counter) == original \o <<"-">> \o Digits(counter)

\* SELECT id FROM cafes WHERE slug = ?
SlugExists(slug) == \E id \in DOMAIN cafes : cafes[id].slug = slug

\* a cafes table without the UNIQUE constraint on slug
SlugUniqueViolatedNever(slug) == FALSE

\* slug TEXT UNIQUE NOT NULL: an INSERT of a stored slug fails
SlugUniqueViolated(slug) == SlugExists(slug)

(***************************************************************************)
(* Cafe routes                                                             *)
(***************************************************************************)
\* a creation request in flight: its position and the locals of generateSlug
Task(pc, op, name, slug, original, counter) ==
    [pc |-> pc, op |-> op, name |-> name, slug |-> slug, original |-> original, counter |-> counter]

\* the requests in flight are told apart by nothing but their locals
StartTask(t) == tasks (+) SetToBag({t})
EndTask(t) == tasks (-) SetToBag({t})
TasksAt(pc) == {t \in BagToSet(tasks) : t.pc = pc}

\* names a request body can carry (<<>>: no name)
CafeNames == {<<"A", "b">>, <<"!">>}
\* names an update can carry
RenameNames == {<<"!">>}
NewCafeName == <<"N", "e", "w", " ", "C", "a", "f", "e">>
MyCafeName == <<"M", "y", " ", "C", "a", "f", "e'">>

\* the identifiers bound in the module scope of the cafe routes (its requires,
\* constants and function declarations)
CafeRouteBindings ==
    {"express", "router", "multer", "path", "fs", "QRCode", "getDb",
     "authenticateToken", "requireAdmin", "requireCafeAccess", "isVercel",
     "storage", "upload", "getSampleCafeMenu", "generateSlug"}

\* extractFromGoogleLink(url): the name it resolves with, per outcome of the
\* scraping (a failure is caught inside and leaves the stub name)
ExtractedName(outcome) ==
    CASE outcome = "success" -> <<"A", "b">>
      [] outcome = "partial" -> <<>>
      [] OTHER -> MyCafeName

\* a new cafes row; the columns not given take the table's defaults
NewCafeRow(name, slug) ==
    [name |-> name, slug |-> slug, is_published |-> 0, is_deployed |-> 0, deployed_url |-> JsNull]

\* POST /manual up to the first await inside generateSlug
ManualStart(user, name) ==
    /\ nextCafeId + BagCardinality(tasks) <= MaxCafeId
    /\ IF ~RequireAdmin(user)
       THEN /\ last' = Resp("manual", 403, 0, "admin required")
            /\ UNCHANGED tasks
       ELSE IF name = <<>>
       THEN /\ last' = Resp("manual", 400, 0, "name required")
            /\ UNCHANGED tasks
       ELSE /\ tasks' = StartTask(Task("slugCheck", "manual", name, SlugBase(name), SlugBase(name), 1))
            /\ last' = Resp("manual", 0, 0, "pending")
    /\ NoRenderCall
    /\ UNCHANGED <<cafes, nextCafeId, deployedFiles, menuVars>>

\* POST /from-google up to the first await inside generateSlug
FromGoogleStart(user, hasUrl, outcome) ==
    /\ nextCafeId + BagCardinality(tasks) <= MaxCafeId
    /\ IF ~RequireAdmin(user)
       THEN /\ last' = Resp("from-google", 403, 0, "admin required")
            /\ UNCHANGED tasks
       ELSE IF ~hasUrl
       THEN /\ last' = Resp("from-google", 400, 0, "link required")
            /\ UNCHANGED tasks
       ELSE IF "extractFromGoogleLink" \notin CafeRouteBindings
       THEN \* ReferenceError, caught by the handler's catch
            /\ last' = Resp("from-google", 500, 0, outcome)
            /\ UNCHANGED tasks
       ELSE LET name == IF ExtractedName(outcome) # <<>> THEN ExtractedName(outcome) ELSE NewCafeName
            IN /\ tasks' = StartTask(Task("slugCheck", "from-google", name,
                                          SlugBase(name), SlugBase(name), 1))
               /\ last' = Resp("from-google", 0, 0, "pending")
    /\ NoRenderCall
    /\ UNCHANGED <<cafes, nextCafeId, deployedFiles, menuVars>>

\* generateSlug: one await db.prepare('SELECT id FROM cafes WHERE slug = ?').get(slug)
\* and the loop step that follows it
SlugCheck(t) ==
    /\ t \in TasksAt("slugCheck")
    /\ IF SlugExists(t.slug)
       THEN tasks' = EndTask(t) (+) SetToBag({[t EXCEPT !.slug = SlugWithCounter(t.original, t.counter),
                                                       !.counter = t.counter + 1]})
       ELSE tasks' = EndTask(t) (+) SetToBag({[t EXCEPT !.pc = "insert"]})
    /\ last' = Resp(t.op, 0, 0, "pending")
    /\ NoRenderCall
    /\ UNCHANGED <<cafes, nextCafeId, deployedFiles, menuVars>>

\* the rest of the creation handler: INSERT INTO cafes, activity log, response
InsertCafe(t) ==
    /\ t \in TasksAt("insert")
    /\ tasks' = EndTask(t)
    /\ IF SlugUniqueViolated(t.slug)
       THEN /\ last' = Resp(t.op, 500, 0, "failed")
            /\ UNCHANGED <<cafes, nextCafeId>>
       ELSE /\ cafes' = InsertRow(cafes, nextCafeId, NewCafeRow(t.name, t.slug))
            /\ nextCafeId' = nextCafeId + 1
            /\ last' = Logged(Resp(t.op, 200, nextCafeId, "created"), "create_cafe")
    /\ NoRenderCall
    /\ UNCHANGED <<deployedFiles, menuVars>>

PublishedAbsent == "absent"

\* an UPDATE that derives the slug again from the new name
UpdatedCafeRowReslug(row, name, isPublished) ==
    [row EXCEPT !.name = IF name # <<>> THEN name ELSE @,
                !.slug = IF name # <<>> THEN SlugBase(name) ELSE @]

\* UPDATE cafes SET name = ?, ..., is_published = ?, ... WHERE id = ? run with
\* name || cafe.name and publishedValue: the row after the statement (slug is
\* not among the columns set)
UpdatedCafeRow(row, name, isPublished) ==
    [row EXCEPT !.name = IF name # <<>> THEN name ELSE @,
                !.is_published = CASE isPublished = "true" -> 1
                                   [] isPublished = "false" -> 0
                                   [] OTHER -> @]

\* PUT /:id (the cafe id is the route parameter id, so requireCafeAccess sees
\* only a cafeId of the body)
UpdateCafe(user, id, bodyCafeId, name, isPublished) ==
    /\ IF ~RequireCafeAccess(user, 0, bodyCafeId)
       THEN /\ last' = Resp("update", 403, 0, "access denied")
            /\ UNCHANGED cafes
       ELSE IF id \notin DOMAIN cafes
       THEN /\ last' = Resp("update", 404, 0, "not found")
            /\ UNCHANGED cafes
       ELSE /\ cafes' = [cafes EXCEPT ![id] = UpdatedCafeRow(@, name, isPublished)]
            /\ last' = Logged(Resp("update", 200, id, "updated"), "update_cafe")
    /\ NoRenderCall
    /\ UNCHANGED <<nextCafeId, deployedFiles, tasks, menuVars>>

\* POST /:id/publish
Publish(user, id, bodyCafeId, publish) ==
    /\ IF ~RequireCafeAccess(user, 0, bodyCafeId)
       THEN /\ last' = Resp("publish", 403, 0, "access denied")
            /\ UNCHANGED cafes
       ELSE /\ cafes' = IF id \in DOMAIN cafes
                        THEN [cafes EXCEPT ![id].is_published = IF publish THEN 1 ELSE 0]
                        ELSE cafes
            /\ last' = Resp("publish", 200, id, IF publish THEN "published" ELSE "unpublished")
    /\ NoRenderCall
    /\ UNCHANGED <<nextCafeId, deployedFiles, tasks, menuVars>>

\* GET /:id; the response names the role of the requester
GetCafe(user, id, bodyCafeId) ==
    /\ IF ~RequireCafeAccess(user, 0, bodyCafeId)
       THEN last' = Resp("get-cafe", 403, id, user.role)
       ELSE IF id \notin DOMAIN cafes
       THEN last' = Resp("get-cafe", 404, id, user.role)
       ELSE last' = Resp("get-cafe", 200, id, user.role)
    /\ NoRenderCall
    /\ UNCHANGED <<cafeVars, menuVars>>

\* POST /:id/generate-qr (qr_code_path and updated_at are not held in the rows)
GenerateQr(user, id, bodyCafeId) ==
    /\ IF ~RequireCafeAccess(user, 0, bodyCafeId)
       THEN last' = Resp("generate-qr", 403, 0, "access denied")
       ELSE IF id \notin DOMAIN cafes
       THEN last' = Resp("generate-qr", 404, 0, "not found")
       ELSE last' = Resp("generate-qr", 200, id, "qr")
    /\ NoRenderCall
    /\ UNCHANGED <<cafeVars, menuVars>>

\* DELETE /:id
DeleteCafe(user, id) ==
    /\ IF ~RequireAdmin(user)
       THEN /\ last' = Resp("delete", 403, 0, "admin required")
            /\ UNCHANGED <<cafes, categories, items>>
       ELSE /\ items' = DeleteRows(items, {i \in DOMAIN items : items[i].cafe_id = id})
            /\ categories' = DeleteRows(categories, {c \in DOMAIN categories : categories[c].cafe_id = id})
            /\ cafes' = DeleteRows(cafes, {id})
            /\ last' = IF id \in DOMAIN cafes
                       THEN Logged(Resp("delete", 200, id, "deleted"), "delete_cafe")
                       ELSE Resp("delete", 200, id, "deleted")
    /\ NoRenderCall
    /\ UNCHANGED <<nextCafeId, deployedFiles, tasks, nextCatId, nextItemId, generatedFiles>>

(***************************************************************************)
(* Rows as the renderer and the public route see them                      *)
(***************************************************************************)
RECURSIVE SortedIds(_, _)
\* the ids of S in ascending key order (rows of equal key in rowid order)
SortedIds(S, key) ==
    IF S = {} THEN <<>>
    ELSE LET m == CHOOSE x \in S : \A y \in S : key[x] < key[y] \/ (key[x] = key[y] /\ x <= y)
         IN <<m>> \o SortedIds(S \ {m}, key)

\* SELECT * FROM cafes: the row as a JavaScript object (columns that the
\* creation statements leave to the table defaults hold those defaults)
CafeRowToJs(row) ==
    [name |-> Str(row.name), slug |-> Str(row.slug),
     tagline |-> Str(<<>>), logo |-> JsNull, phone |-> Str(<<>>), email |-> Str(<<>>),
     website |-> JsNull, address |-> Str(<<>>), instagram |-> JsNull, facebook |-> JsNull,
     currency |-> Str(<<"$">>), primary_color |-> Str(<<"#2C5F2D">>),
     secondary_color |-> Str(<<"#97BC62">>), accent_color |-> Str(<<"#DAA520">>),
     background_color |-> Str(<<"#FDFBF7">>), text_color |-> Str(<<"#2D3436">>)]

\* a menu_items row as a JavaScript object
ItemRowToJs(row) ==
    [name |-> Str(row.name), description |-> Str(<<>>), price |-> row.price,
     original_price |-> row.original_price, image |-> JsNull, calories |-> JsNull,
     is_bestseller |-> Num(0), is_new |-> Num(0), is_vegan |-> Num(0),
     is_vegetarian |-> Num(0), is_spicy |-> Num(0), is_gluten_free |-> Num(0)]

\* the active categories in rowid order, whatever their sort_order
ActiveCategoryIdsByRowid(cafeId) ==
    SortedIds({c \in DOMAIN categories : categories[c].cafe_id = cafeId /\ categories[c].is_active = 1},
              [c \in DOMAIN categories |-> 0])

\* SELECT * FROM categories WHERE cafe_id = ? AND is_active = 1 ORDER BY sort_order
ActiveCategoryIds(cafeId) ==
    SortedIds({c \in DOMAIN categories : categories[c].cafe_id = cafeId /\ categories[c].is_active = 1},
              [c \in DOMAIN categories |-> categories[c].sort_order])

\* SELECT * FROM menu_items WHERE cafe_id = ? AND is_available = 1 ORDER BY sort_order
AvailableItemIds(cafeId) ==
    SortedIds({i \in DOMAIN items : items[i].cafe_id = cafeId /\ items[i].is_available = 1},
              [i \in DOMAIN items |-> items[i].sort_order])

\* a categories row as a JavaScript object, with the items property given
CategoryRowToJs(id, itemsValue) ==
    [id |-> Num(id * 1000), name |-> Str(categories[id].name), icon |-> Str(<<"plate">>),
     description |-> Str(<<>>), items |-> itemsValue]

\* items.filter(item => item.category_id === cat.id)
ItemsOfCategory(itemIds, catId) ==
    LET keep == SelectSeq(itemIds, LAMBDA i : items[i].category_id = catId)
    IN Arr([k \in 1..Len(keep) |-> ItemRowToJs(items[keep[k]])])

\* categories.map(cat => ({...cat, items: items.filter(...)}))
CategoriesWithItems(cafeId) ==
    LET cs == ActiveCategoryIds(cafeId)
    IN [k \in 1..Len(cs) |-> CategoryRowToJs(cs[k], ItemsOfCategory(AvailableItemIds(cafeId), cs[k]))]

\* the categories rows alone, as the deploy route passes them (no items property)
CategoriesWithoutItems(cafeId) ==
    LET cs == ActiveCategoryIds(cafeId)
    IN [k \in 1..Len(cs) |-> CategoryRowToJs(cs[k], JsUndefined)]

(***************************************************************************)
(* Deploy route, public route and the static /deployed mount               *)
(***************************************************************************)
BaseUrl == <<"http://localhost:3000">>

\* POST /:cafeId/generate.  The route takes generateMenuHTML off the exported
\* generator by destructuring and calls it as a plain function.
Generate(user, cafeId, isVercel) ==
    /\ IF ~RequireCafeAccess(user, cafeId, 0)
       THEN /\ last' = Resp("generate", 403, 0, "access denied")
            /\ NoRenderCall
            /\ UNCHANGED <<cafes, deployedFiles>>
       ELSE IF cafeId \notin DOMAIN cafes
       THEN /\ last' = Resp("generate", 404, cafeId, "not found")
            /\ NoRenderCall
            /\ UNCHANGED <<cafes, deployedFiles>>
       ELSE LET cafe == CafeRowToJs(cafes[cafeId])
                cats == CategoriesWithoutItems(cafeId)
                html == GenerateMenuHTML("undefined", cafe, cats)
                slug == cafes[cafeId].slug
            IN /\ renderIn' = [cafe |-> cafe, categories |-> cats]
               /\ renderOut' = html
               /\ renderPrev' = NoEarlierCall
               /\ UNCHANGED outsideVars
               /\ served' = <<>>
               /\ IF html.threw
                  THEN /\ last' = Resp("generate", 500, cafeId, "failed")
                       /\ UNCHANGED <<cafes, deployedFiles>>
                  ELSE IF isVercel
                  THEN /\ cafes' = [cafes EXCEPT ![cafeId].is_deployed = 1,
                                                 ![cafeId].deployed_url = Str(BaseUrl \o <<"/m/">> \o slug)]
                       /\ last' = Logged(Resp("generate", 200, cafeId, "deployed"), "generate_deploy")
                       /\ UNCHANGED deployedFiles
                  ELSE /\ deployedFiles' = InsertRow(deployedFiles, slug, [cafe |-> cafeId, doc |-> html.doc])
                       /\ cafes' = [cafes EXCEPT ![cafeId].is_deployed = 1,
                                                 ![cafeId].deployed_url = Str(BaseUrl \o <<"/deployed/">> \o slug)]
                       /\ last' = Logged(Resp("generate", 200, cafeId, "deployed"), "generate_deploy")
    /\ UNCHANGED <<nextCafeId, tasks, menuVars>>

\* a status route that answers without looking the cafe up
DeployStatusAnswersAlways(user, cafeId, isVercel) ==
    /\ IF ~RequireCafeAccess(user, cafeId, 0)
       THEN last' = Resp("status", 403, 0, "access denied")
       ELSE last' = Resp("status", 200, cafeId, "status")
    /\ NoRenderCall
    /\ UNCHANGED <<cafeVars, menuVars>>

\* GET /:cafeId/status in cloud mode (isVercel) or local mode
DeployStatus(user, cafeId, isVercel) ==
    /\ IF ~RequireCafeAccess(user, cafeId, 0)
       THEN last' = Resp("status", 403, 0, "access denied")
       ELSE IF cafeId \notin DOMAIN cafes
       THEN last' = Resp("status", 404, cafeId, "not found")
       ELSE last' = Resp("status", 200, cafeId, "status")
    /\ NoRenderCall
    /\ UNCHANGED <<cafeVars, menuVars>>

\* GET /:cafeId/download: refused in cloud mode before the cafe is looked up
Download(user, cafeId, isVercel) ==
    /\ IF ~RequireCafeAccess(user, cafeId, 0)
       THEN last' = Resp("download", 403, 0, "access denied")
       ELSE IF isVercel
       THEN last' = Resp("download", 400, cafeId, "cloud mode")
       ELSE IF cafeId \notin DOMAIN cafes
       THEN last' = Resp("download", 404, cafeId, "not found")
       ELSE IF cafes[cafeId].slug \notin DOMAIN deployedFiles
       THEN last' = Resp("download", 400, cafeId, "not generated")
       ELSE last' = Resp("download", 200, cafeId, "zip")
    /\ NoRenderCall
    /\ UNCHANGED <<cafeVars, menuVars>>

\* a public route that serves every cafe found by slug
PublicMenuAllowedAlways(cafe, preview) == TRUE

\* GET /api/public/menu/:slug, the publication test: served when the cafe is
\* published or the query says preview=true
PublicMenuAllowed(cafe, preview) == ~(cafe.is_published = 0 /\ preview # "true")

\* categories.map(cat => ({...cat, items: items.filter(item => item.category_id === cat.id)}))
\* of GET /menu/:slug, each row held by its id
ServedCategories(cafeId) ==
    LET cs == ActiveCategoryIds(cafeId)
        its == AvailableItemIds(cafeId)
    IN [k \in 1..Len(cs) |->
           [id |-> cs[k], items |-> SelectSeq(its, LAMBDA i : items[i].category_id = cs[k])]]

\* GET /api/public/menu/:slug?preview=...
PublicMenu(slug, preview) ==
    /\ LET found == {id \in DOMAIN cafes : cafes[id].slug = slug}
       IN IF found = {}
          THEN /\ last' = Resp("public-menu", 404, 0, preview)
               /\ served' = <<>>
          ELSE LET id == CHOOSE i \in found : TRUE
               IN IF ~PublicMenuAllowed(cafes[id], preview)
                  THEN /\ last' = Resp("public-menu", 404, id, preview)
                       /\ served' = <<>>
                  ELSE /\ last' = Resp("public-menu", 200, id, preview)
                       /\ served' = ServedCategories(id)
    /\ renderIn' = NoRenderInput /\ renderOut' = NotCalled /\ renderPrev' = NoEarlierCall
    /\ UNCHANGED <<cafeVars, menuVars, outsideVars>>

\* GET /deployed/<slug>/index.html, served by express.static
StaticGet(slug) ==
    /\ IF slug \in DOMAIN deployedFiles
       THEN last' = Resp("static", 200, deployedFiles[slug].cafe, "file")
       ELSE last' = Resp("static", 404, 0, "no file")
    /\ NoRenderCall
    /\ UNCHANGED <<cafeVars, menuVars>>

(***************************************************************************)
(* Menu routes (categories and items) and generateStaticFiles              *)
(***************************************************************************)
MaxCatId == 2
MaxItemId == 2

\* (maxOrder?.max || 0) + 1 over the rows of ids
NextSortOrder(tbl, ids) ==
    IF ids = {} THEN 1
    ELSE (CHOOSE m \in {tbl[i].sort_order : i \in ids} :
              \A i \in ids : tbl[i].sort_order <= m) + 1

NewCategoryRow(cafeId, name, sortOrder) ==
    [cafe_id |-> cafeId, name |-> name, sort_order |-> sortOrder, is_active |-> 1]

NewItemRow(cafeId, categoryId, name, price, originalPrice, sortOrder) ==
    [cafe_id |-> cafeId, category_id |-> categoryId, name |-> name, price |-> price,
     original_price |-> originalPrice, is_available |-> 1, sort_order |-> sortOrder]

\* POST /:cafeId/categories
CreateCategory(user, cafeId, name) ==
    /\ nextCatId <= MaxCatId
    /\ IF ~RequireCafeAccess(user, cafeId, 0)
       THEN /\ last' = Resp("create-category", 403, cafeId, "access denied")
            /\ UNCHANGED <<categories, nextCatId>>
       ELSE IF name = <<>>
       THEN /\ last' = Resp("create-category", 400, cafeId, "name required")
            /\ UNCHANGED <<categories, nextCatId>>
       ELSE /\ categories' = InsertRow(categories, nextCatId,
                                 NewCategoryRow(cafeId, name,
                                     NextSortOrder(categories,
                                         {c \in DOMAIN categories : categories[c].cafe_id = cafeId})))
            /\ nextCatId' = nextCatId + 1
            /\ last' = Logged(Resp("create-category", 200, cafeId, "created"), "add_category")
    /\ NoRenderCall
    /\ UNCHANGED <<cafeVars, items, nextItemId, generatedFiles>>

\* price ? parseFloat(price) : null
PriceOrNull(price) == IF Truthy(price) THEN ParseFloat(price) ELSE JsNull

\* price ? parseFloat(price) : 0
PriceOrZero(price) == IF Truthy(price) THEN ParseFloat(price) ELSE Num(0)

\* POST /:cafeId/items (categoryId 0: not in the body)
CreateItem(user, cafeId, categoryId, name, price, originalPrice) ==
    /\ nextItemId <= MaxItemId
    /\ IF ~RequireCafeAccess(user, cafeId, 0)
       THEN /\ last' = Resp("create-item", 403, cafeId, "access denied")
            /\ UNCHANGED <<items, nextItemId>>
       ELSE IF name = <<>> \/ categoryId = 0
       THEN /\ last' = Resp("create-item", 400, cafeId, "name and category required")
            /\ UNCHANGED <<items, nextItemId>>
       ELSE /\ items' = InsertRow(items, nextItemId,
                            NewItemRow(cafeId, categoryId, name, PriceOrNull(price),
                                PriceOrNull(originalPrice),
                                NextSortOrder(items,
                                    {i \in DOMAIN items : items[i].category_id = categoryId})))
            /\ nextItemId' = nextItemId + 1
            /\ last' = Logged(Resp("create-item", 200, cafeId, "created"), "add_item")
    /\ NoRenderCall
    /\ UNCHANGED <<cafeVars, categories, nextCatId, generatedFiles>>

\* POST /:cafeId/categories/:categoryId/items
CreateItemInCategory(user, cafeId, categoryId, name, price) ==
    /\ nextItemId <= MaxItemId
    /\ IF ~RequireCafeAccess(user, cafeId, 0)
       THEN /\ last' = Resp("create-item-in-category", 403, cafeId, "access denied")
            /\ UNCHANGED <<items, nextItemId>>
       ELSE IF name = <<>>
       THEN /\ last' = Resp("create-item-in-category", 400, cafeId, "name required")
            /\ UNCHANGED <<items, nextItemId>>
       ELSE /\ items' = InsertRow(items, nextItemId,
                            NewItemRow(cafeId, categoryId, name, PriceOrZero(price), JsNull,
                                NextSortOrder(items,
                                    {i \in DOMAIN items : items[i].category_id = categoryId})))
            /\ nextItemId' = nextItemId + 1
            /\ last' = Logged(Resp("create-item-in-category", 200, cafeId, "created"), "add_item")
    /\ NoRenderCall
    /\ UNCHANGED <<cafeVars, categories, nextCatId, generatedFiles>>

RECURSIVE BulkInsert(_, _, _, _, _, _)
\* items.forEach(item => insertStmt.run(...)): the table after the statements
\* that ran; a row without a name violates NOT NULL and aborts the loop
BulkInsert(tbl, nextId, cafeId, categoryId, list, sortOrder) ==
    IF list = <<>> THEN [tbl |-> tbl, nextId |-> nextId, failed |-> FALSE]
    ELSE IF Head(list).name = <<>> THEN [tbl |-> tbl, nextId |-> nextId, failed |-> TRUE]
    ELSE BulkInsert(InsertRow(tbl, nextId,
                        NewItemRow(cafeId, categoryId, Head(list).name,
                                   PriceOrNull(Head(list).price), JsNull, sortOrder)),
                    nextId + 1, cafeId, categoryId, Tail(list), sortOrder + 1)

\* POST /:cafeId/items/bulk
BulkAddItems(user, cafeId, categoryId, list) ==
    /\ nextItemId + Len(list) - 1 <= MaxItemId
    /\ IF ~RequireCafeAccess(user, cafeId, 0)
       THEN /\ last' = Resp("bulk-items", 403, cafeId, "access denied")
            /\ UNCHANGED <<items, nextItemId>>
       ELSE IF categoryId = 0
       THEN /\ last' = Resp("bulk-items", 400, cafeId, "category and items required")
            /\ UNCHANGED <<items, nextItemId>>
       ELSE LET r == BulkInsert(items, nextItemId, cafeId, categoryId, list,
                                NextSortOrder(items,
                                    {i \in DOMAIN items : items[i].category_id = categoryId}))
            IN /\ items' = r.tbl
               /\ nextItemId' = r.nextId
               /\ last' = IF r.failed THEN Resp("bulk-items", 500, cafeId, "failed")
                          ELSE Logged(Resp("bulk-items", 200, cafeId, "created"), "bulk_add_items")
    /\ NoRenderCall
    /\ UNCHANGED <<cafeVars, categories, nextCatId, generatedFiles>>

\* Statement.bind of sql.js: a parameter that is undefined is of no bindable
\* type and the call raises (null binds NULL, a boolean binds 0 or 1)
BindThrows(params) == \E k \in 1..Len(params) : params[k].t = "undefined"

\* COALESCE(?, column) over an INTEGER column
Coalesce(v, old) == IF v.t = "null" THEN old ELSE v.n \div 1000

\* value !== undefined ? (value ? 1 : 0) : null
FlagOrNull(v) == IF v.t = "undefined" THEN JsNull ELSE IF Truthy(v) THEN Num(1000) ELSE Num(0)

\* PUT /:cafeId/categories/:categoryId with name, icon and description sent as
\* null (kept by COALESCE), isActive and sortOrder as given
UpdateCategoryRow(user, cafeId, categoryId, isActive, sortOrder) ==
    /\ IF ~RequireCafeAccess(user, cafeId, 0)
       THEN /\ last' = Resp("update-category", 403, cafeId, "access denied")
            /\ UNCHANGED categories
       ELSE IF BindThrows(<<JsNull, JsNull, JsNull, isActive, sortOrder>>)
       THEN /\ last' = Resp("update-category", 500, cafeId, "failed")
            /\ UNCHANGED categories
       ELSE /\ categories' =
                  [c \in DOMAIN categories |->
                      IF c = categoryId /\ categories[c].cafe_id = cafeId
                      THEN [categories[c] EXCEPT !.is_active = Coalesce(isActive, @),
                                                 !.sort_order = Coalesce(sortOrder, @)]
                      ELSE categories[c]]
            /\ last' = Resp("update-category", 200, cafeId, "updated")
    /\ NoRenderCall
    /\ UNCHANGED <<cafeVars, items, nextCatId, nextItemId, generatedFiles>>

\* the same request with sortOrder sent as null
UpdateCategory(user, cafeId, categoryId, isActive) ==
    UpdateCategoryRow(user, cafeId, categoryId, isActive, JsNull)

RECURSIVE ReorderRows(_, _, _, _)
\* order.forEach((id, index) => updateStmt.run(index, id, cafeId)): the table
\* after the statements that ran; an id that is undefined cannot be bound and
\* ends the loop, the earlier statements stay
ReorderRows(tbl, cafeId, order, index) ==
    IF order = <<>> THEN [tbl |-> tbl, failed |-> FALSE]
    ELSE IF BindThrows(<<Head(order)>>) THEN [tbl |-> tbl, failed |-> TRUE]
    ELSE ReorderRows([r \in DOMAIN tbl |->
                         IF Num(r * 1000) = Head(order) /\ tbl[r].cafe_id = cafeId
                         THEN [tbl[r] EXCEPT !.sort_order = index]
                         ELSE tbl[r]],
                     cafeId, Tail(order), index + 1)

\* POST /:cafeId/categories/reorder (order undefined: not in the body)
ReorderCategories(user, cafeId, order) ==
    /\ IF ~RequireCafeAccess(user, cafeId, 0)
       THEN /\ last' = Resp("reorder-categories", 403, cafeId, "access denied")
            /\ UNCHANGED categories
       ELSE IF order.t # "array"
       THEN /\ last' = Resp("reorder-categories", 500, cafeId, "failed")
            /\ UNCHANGED categories
       ELSE LET r == ReorderRows(categories, cafeId, order.a, 0)
            IN /\ categories' = r.tbl
               /\ last' = IF r.failed THEN Resp("reorder-categories", 500, cafeId, "failed")
                          ELSE Resp("reorder-categories", 200, cafeId, "reordered")
    /\ NoRenderCall
    /\ UNCHANGED <<cafeVars, items, nextCatId, nextItemId, generatedFiles>>

\* POST /:cafeId/items/reorder
ReorderItems(user, cafeId, order) ==
    /\ IF ~RequireCafeAccess(user, cafeId, 0)
       THEN /\ last' = Resp("reorder-items", 403, cafeId, "access denied")
            /\ UNCHANGED items
       ELSE IF order.t # "array"
       THEN /\ last' = Resp("reorder-items", 500, cafeId, "failed")
            /\ UNCHANGED items
       ELSE LET r == ReorderRows(items, cafeId, order.a, 0)
            IN /\ items' = r.tbl
               /\ last' = IF r.failed THEN Resp("reorder-items", 500, cafeId, "failed")
                          ELSE Resp("reorder-items", 200, cafeId, "reordered")
    /\ NoRenderCall
    /\ UNCHANGED <<cafeVars, categories, nextCatId, nextItemId, generatedFiles>>

\* DELETE /:cafeId/categories/:categoryId
DeleteCategory(user, cafeId, categoryId) ==
    /\ IF ~RequireCafeAccess(user, cafeId, 0)
       THEN /\ last' = Resp("delete-category", 403, cafeId, "access denied")
            /\ UNCHANGED <<categories, items>>
       ELSE /\ items' = DeleteRows(items, {i \in DOMAIN items : items[i].category_id = categoryId})
            /\ categories' = DeleteRows(categories,
                                 {c \in DOMAIN categories :
                                      c = categoryId /\ categories[c].cafe_id = cafeId})
            /\ last' = IF categoryId \in DOMAIN categories
                       THEN Logged(Resp("delete-category", 200, cafeId, "deleted"), "delete_category")
                       ELSE Resp("delete-category", 200, cafeId, "deleted")
    /\ NoRenderCall
    /\ UNCHANGED <<cafeVars, nextCatId, nextItemId, generatedFiles>>

\* PUT /:cafeId/items/:itemId with name and description sent as null, no
\* price fields and no file; image is currentItem?.image, undefined when no
\* row has the id
UpdateItem(user, cafeId, itemId, categoryId, isAvailable) ==
    /\ IF ~RequireCafeAccess(user, cafeId, 0)
       THEN /\ last' = Resp("update-item", 403, cafeId, "access denied")
            /\ UNCHANGED items
       ELSE LET image == IF itemId \in DOMAIN items THEN JsNull ELSE JsUndefined
            IN IF BindThrows(<<categoryId, JsNull, JsNull, image>>)
               THEN /\ last' = Resp("update-item", 500, cafeId, "failed")
                    /\ UNCHANGED items
               ELSE /\ items' =
                          [i \in DOMAIN items |->
                              IF i = itemId /\ items[i].cafe_id = cafeId
                              THEN [items[i] EXCEPT
                                       !.category_id = Coalesce(categoryId, @),
                                       !.original_price = JsNull,
                                       !.is_available = Coalesce(FlagOrNull(isAvailable), @)]
                              ELSE items[i]]
                    /\ last' = Resp("update-item", 200, cafeId, "updated")
    /\ NoRenderCall
    /\ UNCHANGED <<cafeVars, categories, nextCatId, nextItemId, generatedFiles>>

\* PATCH /:cafeId/items/:itemId/toggle
ToggleItem(user, cafeId, itemId) ==
    /\ IF ~RequireCafeAccess(user, cafeId, 0)
       THEN /\ last' = Resp("toggle-item", 403, cafeId, "access denied")
            /\ UNCHANGED items
       ELSE IF ~(itemId \in DOMAIN items /\ items[itemId].cafe_id = cafeId)
       THEN /\ last' = Resp("toggle-item", 404, cafeId, "item not found")
            /\ UNCHANGED items
       ELSE /\ items' = [items EXCEPT ![itemId].is_available =
                                          IF items[itemId].is_available # 0 THEN 0 ELSE 1]
            /\ last' = Resp("toggle-item", 200, cafeId, "toggled")
    /\ NoRenderCall
    /\ UNCHANGED <<cafeVars, categories, nextCatId, nextItemId, generatedFiles>>

\* DELETE /:cafeId/items/:itemId
DeleteItem(user, cafeId, itemId) ==
    /\ IF ~RequireCafeAccess(user, cafeId, 0)
       THEN /\ last' = Resp("delete-item", 403, cafeId, "access denied")
            /\ UNCHANGED items
       ELSE /\ items' = DeleteRows(items, {i \in DOMAIN items :
                                               i = itemId /\ items[i].cafe_id = cafeId})
            /\ last' = IF itemId \in DOMAIN items
                       THEN Logged(Resp("delete-item", 200, cafeId, "deleted"), "delete_item")
                       ELSE Resp("delete-item", 200, cafeId, "deleted")
    /\ NoRenderCall
    /\ UNCHANGED <<cafeVars, categories, nextCatId, nextItemId, generatedFiles>>

\* the columns of the cafes table (CREATE TABLE cafes)
CafeColumns ==
    {"id", "name", "slug", "tagline", "description", "logo", "cover_image", "phone", "email",
     "address", "website", "google_link", "instagram", "facebook", "currency", "primary_color",
     "secondary_color", "accent_color", "background_color", "text_color", "is_published",
     "is_deployed", "deployed_url", "qr_code_path", "created_by", "created_at", "updated_at"}

\* menuGenerator.generateStaticFiles(cafeId); renderIn and renderOut keep the
\* arguments and the result of its generateMenuHTML call
GenerateStaticFiles(cafeId) ==
    /\ IF cafeId \notin DOMAIN cafes
       THEN /\ last' = Resp("generate-static", 0, cafeId, "throws: cafe not found")
            /\ NoRenderCall
            /\ UNCHANGED generatedFiles
       ELSE LET cafe == CafeRowToJs(cafes[cafeId])
                cats == CategoriesWithItems(cafeId)
                html == GenerateMenuHTML("generator", cafe, cats)
            IN /\ renderIn' = [cafe |-> cafe, categories |-> cats]
               /\ renderOut' = html
               /\ renderPrev' = NoEarlierCall
               /\ UNCHANGED outsideVars
               /\ served' = <<>>
               /\ IF html.threw
                  THEN /\ last' = Resp("generate-static", 0, cafeId, "throws: render")
                       /\ UNCHANGED generatedFiles
                  ELSE /\ generatedFiles' = InsertRow(generatedFiles, cafes[cafeId].slug,
                                                      [cafe |-> cafeId, doc |-> html.doc])
                       /\ last' = IF "last_generated" \in CafeColumns
                                  THEN Resp("generate-static", 200, cafeId, "success")
                                  ELSE Resp("generate-static", 0, cafeId, "throws: no such column")
    /\ UNCHANGED <<cafeVars, categories, items, nextCatId, nextItemId>>

(***************************************************************************)
(* Specification of the cafe lifecycle                                     *)
(***************************************************************************)
Slugs == {SlugBase(n) : n \in CafeNames} \cup {SlugWithCounter(SlugBase(n), 1) : n \in CafeNames}
PreviewValues == {"absent", "true", "1"}
\* a requester and the cafeId of the request body (0: none) on the routes keyed by :id
AccessInputs ==
    {[user |-> Admin, bodyCafeId |-> 0], [user |-> Owner(1), bodyCafeId |-> 0],
     [user |-> Owner(1), bodyCafeId |-> 1]}

Init ==
    /\ renderIn = NoRenderInput
    /\ renderOut = NotCalled
    /\ renderPrev = NoEarlierCall
    /\ OutsideInit
    /\ served = <<>>
    /\ cafes = EmptyTable /\ nextCafeId = 1
    /\ deployedFiles = EmptyTable /\ generatedFiles = EmptyTable
    /\ tasks = EmptyBag
    /\ last = NoResponse
    /\ categories = EmptyTable /\ items = EmptyTable
    /\ nextCatId = 1 /\ nextItemId = 1

Next ==
    \/ \E u \in Requesters, n \in CafeNames \cup {<<>>} : ManualStart(u, n)
    \/ \E u \in Requesters, h \in BOOLEAN, o \in {"success", "partial", "error"} :
           FromGoogleStart(u, h, o)
    \/ \E t \in BagToSet(tasks) : SlugCheck(t)
    \/ \E t \in BagToSet(tasks) : InsertCafe(t)
    \/ \E a \in AccessInputs, id \in 1..MaxCafeId, n \in RenameNames \cup {<<>>},
          p \in {"true", "false", PublishedAbsent} : UpdateCafe(a.user, id, a.bodyCafeId, n, p)
    \/ \E a \in AccessInputs, id \in 1..MaxCafeId, p \in BOOLEAN : Publish(a.user, id, a.bodyCafeId, p)
    \/ \E a \in AccessInputs, id \in 1..MaxCafeId : GenerateQr(a.user, id, a.bodyCafeId)
    \/ \E u \in Requesters, id \in 1..MaxCafeId : DeleteCafe(u, id)
    \/ \E u \in Requesters, id \in 1..MaxCafeId, v \in BOOLEAN : Generate(u, id, v)
    \/ \E s \in Slugs, p \in PreviewValues : PublicMenu(s, p)
    \/ \E s \in Slugs : StaticGet(s)

Spec == Init /\ [][Next]_vars

(***************************************************************************)
(* Specification of the menu of a stored cafe                              *)
(***************************************************************************)
ItemNames == {<<"T">>}
BodyPrices == {JsUndefined, Num(0), Num(3500)}
BulkLists ==
    {<<[name |-> <<"T">>, price |-> p]>> : p \in BodyPrices}
    \cup {<<[name |-> <<"T">>, price |-> Num(12344)], [name |-> <<>>, price |-> JsUndefined]>>}

MenuRequesters == {Admin, Owner(1), Owner(2)}
MenuCafes == {1}

InitMenu ==
    /\ renderIn = NoRenderInput
    /\ renderOut = NotCalled
    /\ renderPrev = NoEarlierCall
    /\ OutsideInit
    /\ served = <<>>
    /\ cafes = InsertRow(EmptyTable, 1, NewCafeRow(<<"A", "b">>, <<"a", "b">>))
    /\ nextCafeId = 2
    /\ deployedFiles = EmptyTable /\ generatedFiles = EmptyTable
    /\ tasks = EmptyBag
    /\ last = NoResponse
    /\ categories = EmptyTable /\ items = EmptyTable
    /\ nextCatId = 1 /\ nextItemId = 1

NextMenu ==
    \/ \E u \in MenuRequesters, c \in MenuCafes, n \in ItemNames \cup {<<>>} : CreateCategory(u, c, n)
    \/ \E u \in MenuRequesters, c \in MenuCafes, k \in 0..MaxCatId, n \in ItemNames \cup {<<>>},
          p \in BodyPrices : CreateItem(u, c, k, n, p, JsUndefined)
    \/ \E u \in MenuRequesters, c \in MenuCafes, k \in 1..MaxCatId, n \in ItemNames \cup {<<>>},
          p \in BodyPrices : CreateItemInCategory(u, c, k, n, p)
    \/ \E u \in MenuRequesters, c \in MenuCafes, k \in 0..MaxCatId, l \in BulkLists :
           BulkAddItems(u, c, k, l)
    \/ \E c \in 1..2 : GenerateStaticFiles(c)

SpecMenu == InitMenu /\ [][NextMenu]_vars

(***************************************************************************)
(* Specification of the stored menu rows and what the public menu serves   *)
(***************************************************************************)
StoreRequesters == {Admin}
StoreCafes == {1, 2}
StorePrice == Num(3500)
BodyFlags == {JsUndefined, Num(0)}
BodyCategoryIds == {JsUndefined, JsNull} \cup {Num(k * 1000) : k \in 1..MaxCatId}

NextStore ==
    \/ \E u \in StoreRequesters, c \in StoreCafes : CreateCategory(u, c, <<"T">>)
    \/ \E u \in StoreRequesters, c \in StoreCafes, k \in 1..MaxCatId :
           CreateItem(u, c, k, <<"T">>, StorePrice, JsUndefined)
    \/ \E u \in StoreRequesters, c \in StoreCafes, k \in 1..MaxCatId :
           BulkAddItems(u, c, k, <<[name |-> <<"T">>, price |-> StorePrice]>>)
    \/ \E u \in StoreRequesters, c \in StoreCafes, k \in 1..MaxCatId, a \in BodyFlags :
           UpdateCategory(u, c, k, a)
    \/ \E u \in StoreRequesters, c \in StoreCafes, k \in 1..MaxCatId : DeleteCategory(u, c, k)
    \/ \E u \in StoreRequesters, c \in StoreCafes, i \in 1..MaxItemId, k \in BodyCategoryIds :
           UpdateItem(u, c, i, k, JsUndefined)
    \/ \E u \in StoreRequesters, c \in StoreCafes, i \in 1..MaxItemId : ToggleItem(u, c, i)
    \/ \E u \in StoreRequesters, c \in StoreCafes : DeleteCafe(u, c)
    \/ \E p \in {"absent", "true"} : PublicMenu(<<"a", "b">>, p)

SpecStore == InitMenu /\ [][NextStore]_vars

(***************************************************************************)
(* Specification of the deployment requests, for cafe ids stored or not    *)
(***************************************************************************)
NextDeploy ==
    \/ \E u \in MenuRequesters : CreateCategory(u, 1, <<"T">>)
    \/ \E u \in MenuRequesters, c \in 1..MaxCafeId : DeleteCafe(u, c)
    \/ \E u \in MenuRequesters, c \in 1..MaxCafeId, v \in BOOLEAN : Generate(u, c, v)
    \/ \E u \in MenuRequesters, c \in 1..MaxCafeId, v \in BOOLEAN : Download(u, c, v)
    \/ \E u \in MenuRequesters, c \in 1..MaxCafeId, v \in BOOLEAN : DeployStatus(u, c, v)
    \/ \E c \in 1..MaxCafeId : GenerateStaticFiles(c)

SpecDeploy == InitMenu /\ [][NextDeploy]_vars

(***************************************************************************)
(* Specification of the order of the menu: creation, reordering and update *)
(* of the categories and items of one cafe, then what is presented         *)
(***************************************************************************)
\* the order of a reorder request: absent, or ids of rows (with one that is
\* undefined among them)
OrderLists(n) ==
    LET ids == {Num(k * 1000) : k \in 1..n}
    IN {JsUndefined, Arr(<<Num(1000), JsUndefined>>)}
       \cup {Arr(<<a>>) : a \in ids} \cup {Arr(<<q[1], q[2]>>) : q \in {r \in ids \X ids : r[1] # r[2]}}
BodySortOrders == {JsUndefined, Num(0)}

\* the cafe of InitMenu after POST /1/categories and two POST /1/items for the
\* new category, the items named T and U
InitOrder ==
    /\ renderIn = NoRenderInput
    /\ renderOut = NotCalled
    /\ renderPrev = NoEarlierCall
    /\ OutsideInit
    /\ served = <<>>
    /\ cafes = InsertRow(EmptyTable, 1, NewCafeRow(<<"A", "b">>, <<"a", "b">>))
    /\ nextCafeId = 2
    /\ deployedFiles = EmptyTable /\ generatedFiles = EmptyTable
    /\ tasks = EmptyBag
    /\ last = NoResponse
    /\ categories = InsertRow(EmptyTable, 1, NewCategoryRow(1, <<"T">>, 1))
    /\ items = InsertRow(InsertRow(EmptyTable, 1,
                              NewItemRow(1, 1, <<"T">>, StorePrice, JsNull, 1)),
                        2, NewItemRow(1, 1, <<"U">>, StorePrice, JsNull, 2))
    /\ nextCatId = 2 /\ nextItemId = 3

NextOrder ==
    \/ CreateCategory(Admin, 1, <<"T">>)
    \/ \E k \in 1..MaxCatId, o \in BodySortOrders : UpdateCategoryRow(Admin, 1, k, JsNull, o)
    \/ \E o \in OrderLists(MaxCatId) : ReorderCategories(Admin, 1, o)
    \/ \E o \in OrderLists(MaxItemId) : ReorderItems(Admin, 1, o)
    \/ PublicMenu(<<"a", "b">>, "true")
    \/ GenerateStaticFiles(1)

SpecOrder == InitOrder /\ [][NextOrder]_vars

(***************************************************************************)
(* Specification of the requests of the owner of cafe 1 while a second     *)
(* cafe is stored, each cafe with one category and one item in it          *)
(***************************************************************************)
OtherCafeRow == NewCafeRow(<<"B", "c">>, <<"b", "c">>)
OtherCategoryRow == NewCategoryRow(2, <<"T">>, 1)
OtherItemRow == NewItemRow(2, 2, <<"U">>, StorePrice, JsNull, 1)

InitAccess ==
    /\ renderIn = NoRenderInput
    /\ renderOut = NotCalled
    /\ renderPrev = NoEarlierCall
    /\ OutsideInit
    /\ served = <<>>
    /\ cafes = InsertRow(InsertRow(EmptyTable, 1, NewCafeRow(<<"A", "b">>, <<"a", "b">>)),
                        2, OtherCafeRow)
    /\ nextCafeId = 3
    /\ deployedFiles = EmptyTable /\ generatedFiles = EmptyTable
    /\ tasks = EmptyBag
    /\ last = NoResponse
    /\ categories = InsertRow(InsertRow(EmptyTable, 1, NewCategoryRow(1, <<"T">>, 1)),
                             2, OtherCategoryRow)
    /\ items = InsertRow(InsertRow(EmptyTable, 1,
                              NewItemRow(1, 1, <<"T">>, StorePrice, Num(4500), 1)),
                        2, OtherItemRow)
    /\ nextCatId = 3 /\ nextItemId = 3

AccessCafes == {1, 2}
AccessBodyCafeIds == {0, 1, 2}
AccessRowIds == {1, 2}

NextAccess ==
    \/ \E u \in {Admin, Owner(1)}, id \in AccessCafes, b \in AccessBodyCafeIds : GetCafe(u, id, b)
    \/ \E id \in AccessCafes, b \in AccessBodyCafeIds, n \in {<<"M">>, <<>>} :
           UpdateCafe(Owner(1), id, b, n, PublishedAbsent)
    \/ \E id \in AccessCafes, b \in AccessBodyCafeIds, p \in BOOLEAN : Publish(Owner(1), id, b, p)
    \/ \E c \in AccessCafes, k \in AccessRowIds : UpdateCategory(Owner(1), c, k, Num(0))
    \/ \E c \in AccessCafes, k \in AccessRowIds : DeleteCategory(Owner(1), c, k)
    \/ \E c \in AccessCafes, k \in AccessRowIds :
           ReorderCategories(Owner(1), c, Arr(<<Num(k * 1000)>>))
    \/ \E c \in AccessCafes, i \in AccessRowIds, k \in {JsNull, Num(1000), Num(2000)} :
           UpdateItem(Owner(1), c, i, k, JsUndefined)
    \/ \E c \in AccessCafes, i \in AccessRowIds : ToggleItem(Owner(1), c, i)
    \/ \E c \in AccessCafes, i \in AccessRowIds : ReorderItems(Owner(1), c, Arr(<<Num(i * 1000)>>))
    \/ \E c \in AccessCafes, i \in AccessRowIds : DeleteItem(Owner(1), c, i)

SpecAccess == InitAccess /\ [][NextAccess]_vars

(***************************************************************************)
(* The first /api requests of a fresh server process: the middleware that  *)
(* awaits ensureDbReady, then a handler that awaits getDb and queries      *)
(***************************************************************************)
MaxRequests == 3

\* a request does the same whatever the promise holds
StartsInitAlways(promise) == TRUE

\* if (!dbInitPromise)
StartsInit(promise) == promise = "none"

Request(pc, status) == [pc |-> pc, status |-> status]

\* app.use('/api', ...) up to the await inside ensureDbReady
Arrive(r) ==
    /\ requests[r].pc = "idle"
    /\ IF dbInit.initialized
       THEN /\ requests' = [requests EXCEPT ![r] = Request("handler", 0)]
            /\ UNCHANGED dbInit
       ELSE /\ requests' = [requests EXCEPT ![r] = Request("awaiting", 0)]
            /\ dbInit' = IF StartsInit(dbInit.promise)
                         THEN [dbInit EXCEPT !.promise = "pending", !.starts = @ + 1]
                         ELSE dbInit
    /\ UNCHANGED <<renderVars, cafeVars, menuVars, last, page, authVars>>

\* initializeDatabase() settles: then(() => { dbInitialized = true }) or the
\* catch that rethrows
InitializeDatabaseEnds(ok) ==
    /\ dbInit.promise = "pending"
    /\ dbInit' = IF ok THEN [dbInit EXCEPT !.promise = "fulfilled", !.initialized = TRUE]
                 ELSE [dbInit EXCEPT !.promise = "rejected"]
    /\ UNCHANGED <<renderVars, cafeVars, menuVars, last, page, authVars, requests>>

\* the await of dbInitPromise ends: next(), or the catch that answers 500
Resume(r) ==
    /\ requests[r].pc = "awaiting"
    /\ dbInit.promise \in {"fulfilled", "rejected"}
    /\ requests' = [requests EXCEPT ![r] = IF dbInit.promise = "fulfilled"
                                            THEN Request("handler", 0)
                                            ELSE Request("done", 500)]
    /\ UNCHANGED <<renderVars, cafeVars, menuVars, last, page, authVars, dbInit>>

\* the handler calls getDb (getDatabaseWrapper): the first call makes the
\* wrapper and awaits its init, a later call is handed the wrapper as it is
GetDatabaseWrapper(r) ==
    /\ requests[r].pc = "handler"
    /\ IF dbInit.wrapper = "none"
       THEN /\ dbInit' = [dbInit EXCEPT !.wrapper = "initializing"]
            /\ requests' = [requests EXCEPT ![r] = Request("wrapper", 0)]
       ELSE /\ requests' = [requests EXCEPT ![r] = Request("query", 0)]
            /\ UNCHANGED dbInit
    /\ UNCHANGED <<renderVars, cafeVars, menuVars, last, page, authVars>>

\* wrapper.init() settles: this.ready = true, or the handler's catch answers 500
WrapperInitEnds(r, ok) ==
    /\ requests[r].pc = "wrapper"
    /\ dbInit' = [dbInit EXCEPT !.wrapper = IF ok THEN "ready" ELSE "failed"]
    /\ requests' = [requests EXCEPT ![r] = IF ok THEN Request("query", 0)
                                            ELSE Request("done", 500)]
    /\ UNCHANGED <<renderVars, cafeVars, menuVars, last, page, authVars>>

\* db.prepare(...).get/run/all of the handler, and its answer
Query(r) ==
    /\ requests[r].pc = "query"
    /\ requests' = [requests EXCEPT ![r] = Request("done", 200)]
    /\ UNCHANGED <<renderVars, cafeVars, menuVars, last, page, authVars, dbInit>>

InitBoot ==
    /\ renderIn = NoRenderInput
    /\ renderOut = NotCalled
    /\ renderPrev = NoEarlierCall
    /\ served = <<>>
    /\ page = NoPage
    /\ AuthInit
    /\ cafes = EmptyTable /\ nextCafeId = 1
    /\ deployedFiles = EmptyTable /\ generatedFiles = EmptyTable
    /\ tasks = EmptyBag /\ last = NoResponse
    /\ categories = EmptyTable /\ items = EmptyTable
    /\ nextCatId = 1 /\ nextItemId = 1
    /\ dbInit = [initialized |-> FALSE, promise |-> "none", starts |-> 0, wrapper |-> "none"]
    /\ requests = [r \in 1..MaxRequests |-> Request("idle", 0)]

NextBoot ==
    \/ \E r \in 1..MaxRequests : Arrive(r)
    \/ \E ok \in BOOLEAN : InitializeDatabaseEnds(ok)
    \/ \E r \in 1..MaxRequests : Resume(r)
    \/ \E r \in 1..MaxRequests : GetDatabaseWrapper(r)
    \/ \E r \in 1..MaxRequests, ok \in BOOLEAN : WrapperInitEnds(r, ok)
    \/ \E r \in 1..MaxRequests : Query(r)

SpecBoot == InitBoot /\ [][NextBoot]_vars

(***************************************************************************)
(* authenticateToken, POST /login and the owner routes of the admin        *)
(***************************************************************************)
MaxUserId == 2

\* the request bears no Authorization token
NoToken == [kind |-> "none"]

\* jwt.sign({id, email, role}, JWT_SECRET, {expiresIn: '7d'})
Payload(id, role) == [id |-> id, role |-> role]

\* the tokens a request can bear: none, one that /login signed (still good, or
\* past its seven days), one signed with another secret
RequestTokens ==
    {NoToken}
    \cup {[kind |-> k, id |-> t.id, role |-> t.role] : t \in issued, k \in {"signed", "expired"}}
    \cup {[kind |-> "forged", id |-> 1, role |-> "admin"]}

AuthOutcome(token, status, user) == [token |-> token, status |-> status, user |-> user]
NoUser == [role |-> "none"]

\* a middleware that takes the verified payload for the user
AuthenticateTokenTrustsPayload(token) ==
    IF token.kind = "none" THEN AuthOutcome(token, 401, NoUser)
    ELSE IF token.kind # "signed" THEN AuthOutcome(token, 403, NoUser)
    ELSE AuthOutcome(token, 200, [role |-> token.role, cafe_id |-> 0, is_active |-> 1])

\* authenticateToken: status 200 stands for next() with req.user set
AuthenticateToken(token) ==
    IF token.kind = "none" THEN AuthOutcome(token, 401, NoUser)
    ELSE IF token.kind # "signed" THEN AuthOutcome(token, 403, NoUser)
    ELSE IF token.id \in DOMAIN users /\ users[token.id].is_active = 1
    THEN AuthOutcome(token, 200, users[token.id])
    ELSE AuthOutcome(token, 403, NoUser)

\* POST /api/auth/login with the email and the password of the user id
Login(id) ==
    /\ IF id \in DOMAIN users /\ users[id].is_active = 1
       THEN /\ issued' = issued \cup {Payload(id, users[id].role)}
            /\ last' = Logged(Resp("login", 200, 0, "token"), "login")
       ELSE /\ last' = Resp("login", 401, 0, "invalid credentials")
            /\ UNCHANGED issued
    /\ auth' = NoAuthCall
    /\ UNCHANGED <<users, nextUserId, revoked>>
    /\ UNCHANGED <<renderVars, cafeVars, menuVars, page, bootVars>>

\* any request to a route behind authenticateToken alone (GET /api/auth/me)
ProtectedRequest(token) ==
    /\ auth' = AuthenticateToken(token)
    /\ last' = Resp("me", auth'.status, 0, "me")
    /\ UNCHANGED <<users, nextUserId, issued, revoked>>
    /\ UNCHANGED <<renderVars, cafeVars, menuVars, page, bootVars>>

\* router.use(authenticateToken); router.use(requireAdmin): the status that
\* ends the request before its handler (200: the handler runs)
AdminGate(token) ==
    LET a == AuthenticateToken(token)
    IN IF a.status # 200 THEN a.status
       ELSE IF ~RequireAdmin(a.user) THEN 403 ELSE 200

\* POST /api/admin/owners for a new email
CreateOwner(token, cafeId) ==
    /\ nextUserId <= MaxUserId
    /\ auth' = AuthenticateToken(token)
    /\ IF AdminGate(token) # 200
       THEN /\ last' = Resp("create-owner", AdminGate(token), 0, "rejected")
            /\ UNCHANGED <<users, nextUserId>>
       ELSE /\ users' = InsertRow(users, nextUserId,
                            [role |-> "owner", cafe_id |-> cafeId, is_active |-> 1])
            /\ nextUserId' = nextUserId + 1
            /\ last' = Logged(Resp("create-owner", 200, cafeId, "created"), "create_owner")
    /\ UNCHANGED <<issued, revoked>>
    /\ UNCHANGED <<renderVars, cafeVars, menuVars, page, bootVars>>

\* PUT /api/admin/owners/:id with email and name sent as null and no
\* resetPassword: is_active = COALESCE(?, is_active), cafe_id = ?
UpdateOwner(token, id, isActive, cafeId) ==
    /\ auth' = AuthenticateToken(token)
    /\ IF AdminGate(token) # 200
       THEN /\ last' = Resp("update-owner", AdminGate(token), 0, "rejected")
            /\ UNCHANGED <<users, revoked>>
       ELSE IF BindThrows(<<JsNull, JsNull, isActive, cafeId>>)
       THEN /\ last' = Resp("update-owner", 500, 0, "failed")
            /\ UNCHANGED <<users, revoked>>
       ELSE /\ users' = [u \in DOMAIN users |->
                            IF u = id
                            THEN [users[u] EXCEPT
                                     !.is_active = Coalesce(isActive, @),
                                     !.cafe_id = IF cafeId.t = "null" THEN 0
                                                 ELSE cafeId.n \div 1000]
                            ELSE users[u]]
            /\ revoked' = IF id \in DOMAIN users /\ users'[id].is_active # 1
                          THEN [revoked EXCEPT !.deactivated = @ \cup {id}]
                          ELSE revoked
            /\ last' = Resp("update-owner", 200, 0, "updated")
    /\ UNCHANGED <<nextUserId, issued>>
    /\ UNCHANGED <<renderVars, cafeVars, menuVars, page, bootVars>>

\* DELETE /api/admin/owners/:id
DeleteOwner(token, id) ==
    /\ auth' = AuthenticateToken(token)
    /\ IF AdminGate(token) # 200
       THEN /\ last' = Resp("delete-owner", AdminGate(token), 0, "rejected")
            /\ UNCHANGED <<users, revoked>>
       ELSE LET gone == {u \in DOMAIN users : u = id /\ users[u].role = "owner"}
            IN /\ users' = DeleteRows(users, gone)
               /\ revoked' = [revoked EXCEPT !.deleted = @ \cup gone]
               /\ last' = Resp("delete-owner", 200, 0, "deleted")
    /\ UNCHANGED <<nextUserId, issued>>
    /\ UNCHANGED <<renderVars, cafeVars, menuVars, page, bootVars>>

InitAuth ==
    /\ renderIn = NoRenderInput
    /\ renderOut = NotCalled
    /\ renderPrev = NoEarlierCall
    /\ served = <<>>
    /\ page = NoPage
    /\ AuthInit /\ BootDone
    /\ cafes = InsertRow(EmptyTable, 1, NewCafeRow(<<"A", "b">>, <<"a", "b">>))
    /\ nextCafeId = 2
    /\ deployedFiles = EmptyTable /\ generatedFiles = EmptyTable
    /\ tasks = EmptyBag /\ last = NoResponse
    /\ categories = EmptyTable /\ items = EmptyTable
    /\ nextCatId = 1 /\ nextItemId = 1

BodyIsActive == {JsNull, Num(0), Num(1000)}
BodyOwnerCafeIds == {JsUndefined, JsNull, Num(1000)}

NextAuth ==
    \/ \E id \in 1..MaxUserId : Login(id)
    \/ \E t \in RequestTokens : ProtectedRequest(t)
    \/ \E t \in RequestTokens : CreateOwner(t, 1)
    \/ \E t \in RequestTokens, id \in 1..MaxUserId, a \in BodyIsActive, c \in BodyOwnerCafeIds :
           UpdateOwner(t, id, a, c)
    \/ \E t \in RequestTokens, id \in 1..MaxUserId : DeleteOwner(t, id)

SpecAuth == InitAuth /\ [][NextAuth]_vars

(***************************************************************************)
(* Properties of the cafe lifecycle (Spec)                                 *)
(***************************************************************************)
UnpublishedWithSlug(slug) == \E id \in DOMAIN cafes : cafes[id].slug = slug /\ cafes[id].is_published = 0

\* C2: a public menu request without preview=true for an unpublished cafe is
\* answered 404, the static /deployed page of an unpublished cafe is not
\* served, and every cafe served without the preview flag is published
C2_UnpublishedNotServed ==
    [][/\ \A s \in Slugs, p \in PreviewValues \ {"true"} :
              (PublicMenu(s, p) /\ UnpublishedWithSlug(s)) => last'.status = 404
       /\ \A s \in Slugs : (StaticGet(s) /\ UnpublishedWithSlug(s)) => last'.status = 404
       /\ (last'.op \in {"public-menu", "static"} /\ last'.status = 200 /\ last'.info # "true") =>
              (last'.cafe \in DOMAIN cafes' /\ cafes'[last'.cafe].is_published = 1)]_vars

\* C2 witness: a stored unpublished cafe asked for without the preview flag
\* is answered 404
C2_Witness ==
    /\ last.op = "public-menu" /\ last.info = "absent" /\ last.status = 404
    /\ last.cafe \in DOMAIN cafes
    /\ cafes[last.cafe].is_published = 0

\* C3: a deployment request by a user with access for a stored cafe answers
\* with success and leaves the cafe deployed with a URL
C3_DeployRecordsUrl ==
    (last.op = "generate" /\ last.info \notin {"access denied", "not found"}) =>
        /\ last.status = 200
        /\ last.cafe \in DOMAIN cafes
        /\ cafes[last.cafe].is_deployed = 1
        /\ cafes[last.cafe].deployed_url # JsNull

\* C4: a creation from a listing link answers with success and a stored cafe
\* for every outcome of the extraction
C4_FromGoogleNeverFails ==
    (last.op = "from-google" /\ last.info \in {"success", "partial", "error"}) =>
        (last.status = 200 /\ last.cafe \in DOMAIN cafes)

\* C8: no two stored cafes share a slug, and a cafe that is inserted has a
\* slug no cafe stored at that time has
C8_SlugsUnique ==
    [][/\ \A i, j \in DOMAIN cafes' : i # j => cafes'[i].slug # cafes'[j].slug
       /\ \A i \in DOMAIN cafes' \ DOMAIN cafes :
              \A j \in DOMAIN cafes : cafes[j].slug # cafes'[i].slug]_vars

\* C8 witness: a second cafe of the same name stored under the counter
\* suffix beside the first
C8_Witness ==
    /\ last.op = "manual" /\ last.status = 200
    /\ \E i, j \in DOMAIN cafes :
           /\ cafes[i].slug = <<"a", "b">>
           /\ cafes[j].slug = <<"a", "b", "-", "1">>
           /\ cafes[i].name = cafes[j].name

UrlSafeChars ==
    {"a", "b", "c", "d", "e", "f", "g", "h", "i", "j", "k", "l", "m", "n", "o", "p", "q", "r",
     "s", "t", "u", "v", "w", "x", "y", "z", "0", "1", "2", "3", "4", "5", "6", "7", "8", "9"}

UrlSafe(s) ==
    /\ s # <<>>
    /\ \A k \in 1..Len(s) : s[k] \in UrlSafeChars \cup {"-"}
    /\ s[1] # "-" /\ s[Len(s)] # "-"
    /\ \A k \in 1..(Len(s) - 1) : ~(s[k] = "-" /\ s[k + 1] = "-")

\* C9: the slug of every stored cafe is non-empty and made of lowercase
\* letters, digits and single hyphens, with no hyphen first or last
C9_SlugsUrlSafe == \A id \in DOMAIN cafes : UrlSafe(cafes[id].slug)

\* C10: no step changes the slug of a cafe that stays stored
C10_SlugImmutable ==
    [][\A id \in DOMAIN cafes \cap DOMAIN cafes' : cafes'[id].slug = cafes[id].slug]_vars

\* C10 witness: a cafe renamed by an update to a name with another slug base
\* still has the slug of its creation
C10_Witness ==
    /\ last.op = "update" /\ last.status = 200
    /\ last.cafe \in DOMAIN cafes
    /\ cafes[last.cafe].name = <<"!">>
    /\ cafes[last.cafe].slug = <<"a", "b">>

\* the two forms of the deployed URL of a slug (local and cloud mode)
DeployedUrls(slug) ==
    {Str(BaseUrl \o <<"/deployed/">> \o slug), Str(BaseUrl \o <<"/m/">> \o slug)}

\* C13: deployment requests for the same stored cafe, in whatever number and
\* order they are answered, each leave the state of a single request: the cafe
\* is deployed under the URL of its slug and the document is the rendering of
\* the stored data.
C13_DeployRequestsLeaveOneDeployment ==
    (last.op = "generate" /\ last.info \notin {"access denied", "not found"}) =>
        /\ renderOut = GenerateMenuHTML("generator", renderIn.cafe, renderIn.categories)
        /\ cafes[last.cafe].is_deployed = 1
        /\ cafes[last.cafe].deployed_url \in DeployedUrls(cafes[last.cafe].slug)

(***************************************************************************)
(* Properties of the deployment requests (SpecDeploy)                      *)
(***************************************************************************)
\* the step answers a rendering or deployment request, by a requester with
\* access, for a cafe id that names no stored cafe
UnresolvedCafeRequest ==
    /\ last'.op \in {"generate", "download", "status", "generate-static"}
    /\ last'.info # "access denied"
    /\ last'.cafe \notin DOMAIN cafes

\* no file written, no cafe row or menu row changed, no activity entry logged
NothingChanged ==
    /\ last'.log = "none"
    /\ UNCHANGED <<cafes, deployedFiles, generatedFiles, categories, items>>

\* C16 (as stated): a rendering or deployment request for a cafe id that
\* names no stored cafe is answered with not found, 404 from the generate,
\* download and status routes and the error of generateStaticFiles, and
\* changes nothing.
C16_UnresolvedCafeIsNotFound ==
    [][UnresolvedCafeRequest =>
          /\ last'.info \in {"not found", "throws: cafe not found"}
          /\ last'.op # "generate-static" => last'.status = 404
          /\ NothingChanged]_vars

\* C16 (amended): such a request changes nothing and is answered with not
\* found, except that the download route in cloud mode answers 400 before it
\* looks the cafe up.
C16_UnresolvedCafeChangesNothing ==
    [][UnresolvedCafeRequest =>
          /\ \/ /\ last'.info \in {"not found", "throws: cafe not found"}
                /\ last'.op # "generate-static" => last'.status = 404
             \/ last'.op = "download" /\ last'.status = 400 /\ last'.info = "cloud mode"
          /\ NothingChanged]_vars

\* a status request for a cafe that was deleted after a document of it had
\* been generated is answered 404
C16_Witness ==
    /\ last.op = "status" /\ last.status = 404
    /\ last.cafe \notin DOMAIN cafes
    /\ generatedFiles # EmptyTable

(***************************************************************************)
(* Properties of the menu (SpecMenu)                                       *)
(***************************************************************************)
\* C5: every item card of a generated document shows the currency symbol
\* followed by the price with exactly two decimals, and 0.00 for an item
\* stored without a price or with price zero
C5_PriceTwoDecimals ==
    RenderReturned =>
        LET doc == renderOut.doc
            symbol == ToStr(JsOr(renderIn.cafe.currency, DefaultCurrency))
        IN \A k \in 1..Len(doc) :
               doc[k].slot = "item-price" =>
                   LET price == renderIn.categories[doc[k].cat].items.a[doc[k].item].price
                       amount == SubSeq(doc[k].text, Len(symbol) + 1, Len(doc[k].text))
                   IN /\ SubSeq(doc[k].text, 1, Len(symbol)) = symbol
                      /\ TwoDecimals(amount)
                      /\ (price \in {JsNull, JsUndefined, Num(0)}) => amount = <<"0", ".", "0", "0">>

\* C15: generateStaticFiles with the id of a stored cafe returns success
\* without raising, and the document it rendered is the file of the slug.
C15_GenerateStaticFilesSucceeds ==
    (last.op = "generate-static" /\ last.cafe \in DOMAIN cafes) =>
        /\ last.status = 200 /\ last.info = "success"
        /\ cafes[last.cafe].slug \in DOMAIN generatedFiles
        /\ RenderReturned
        /\ generatedFiles[cafes[last.cafe].slug].doc = renderOut.doc

(***************************************************************************)
(* Properties of the stored menu rows (SpecStore)                          *)
(***************************************************************************)
\* the item ids listed under the entry k of the served categories
ServedItems(k) == {served[k].items[j] : j \in DOMAIN served[k].items}

\* C11: the public menu response shows no category with is_active = 0 and no
\* item with is_available = 0, and every available item of an active category
\* of the cafe is listed under the category whose id is its category_id.
C11_MenuShowsAvailableItems ==
    (last.op = "public-menu" /\ last.status = 200) =>
        /\ \A k \in DOMAIN served :
               /\ categories[served[k].id].is_active = 1
               /\ \A i \in ServedItems(k) :
                      items[i].is_available = 1 /\ items[i].category_id = served[k].id
        /\ \A c \in DOMAIN categories, i \in DOMAIN items :
               (/\ categories[c].cafe_id = last.cafe
                /\ categories[c].is_active = 1
                /\ items[i].category_id = c
                /\ items[i].is_available = 1)
               => \E k \in DOMAIN served : served[k].id = c /\ i \in ServedItems(k)

\* C12: the category_id of every stored item names an existing category, and
\* the item and that category belong to the same cafe.
C12_ItemsReferenceOwnCategory ==
    \A i \in DOMAIN items :
        /\ items[i].category_id \in DOMAIN categories
        /\ categories[items[i].category_id].cafe_id = items[i].cafe_id

(***************************************************************************)
(* Properties of the order of the menu (SpecOrder)                         *)
(***************************************************************************)
\* the rows of ids are in ascending sort_order, rows of equal sort_order in
\* the order of their creation
InSortOrder(tbl, ids) ==
    \A j, k \in DOMAIN ids :
        j < k => \/ tbl[ids[j]].sort_order < tbl[ids[k]].sort_order
                 \/ (tbl[ids[j]].sort_order = tbl[ids[k]].sort_order /\ ids[j] < ids[k])

\* the category ids of the sections of a document, in document order
SectionIds(doc) ==
    LET ids == SelectSeq(doc, LAMBDA part : part.slot = "section-id")
    IN [k \in 1..Len(ids) |-> CHOOSE c \in DOMAIN categories : ToStr(Num(c * 1000)) = ids[k].text]

\* the item names of the cards of the section at index c, in document order
CardNames(doc, c) ==
    LET names == SelectSeq(PartsOfCategory(doc, c), LAMBDA part : part.slot = "item-name")
    IN [k \in 1..Len(names) |-> names[k].text]

\* the escaped names of the available items of a category in sort order
NamesInSortOrder(cafeId, catId) ==
    LET S == {i \in DOMAIN items : /\ items[i].cafe_id = cafeId /\ items[i].is_available = 1
                                    /\ items[i].category_id = catId}
        ids == CHOOSE q \in [1..Cardinality(S) -> S] :
                   /\ \A j, k \in 1..Cardinality(S) : j # k => q[j] # q[k]
                   /\ InSortOrder(items, q)
    IN [k \in 1..Cardinality(S) |-> EscapeHtml(Str(items[ids[k]].name)).out]

C25_OwnerTouchesOwnCafeOnly ==
    /\ (last.op \in {"update", "publish"} /\ last.status = 200) => last.cafe = 1
    /\ 2 \in DOMAIN cafes /\ cafes[2] = OtherCafeRow

\* C26: the owner of cafe 1 asking for cafe 1 is granted access (never
\* answered 403), and an admin is granted access to every cafe.
C26_OwnerReachesOwnCafe ==
    last.op = "get-cafe" =>
        /\ (last.info = "owner" /\ last.cafe = 1) => last.status # 403
        /\ last.info = "admin" => last.status # 403

\* C27: no request of the owner of cafe 1 changes or deletes a category or an
\* item of cafe 2: the rows of cafe 2 stay as stored.
C27_OtherCafeRowsUntouched ==
    /\ 2 \in DOMAIN categories /\ categories[2] = OtherCategoryRow
    /\ 2 \in DOMAIN items /\ items[2] = OtherItemRow

\* C30: an item update that supplies no name, description, price or original
\* price leaves those fields of the item as stored, and leaves every other
\* item as it was.
C30_UnsuppliedFieldsKept ==
    [][(last'.op = "update-item" /\ last'.status = 200) =>
           /\ DOMAIN items' = DOMAIN items
           /\ \A i \in DOMAIN items :
                  /\ items'[i].name = items[i].name
                  /\ items'[i].price = items[i].price
                  /\ items'[i].original_price = items[i].original_price
                  /\ items'[i].sort_order = items[i].sort_order
                  /\ items'[i].cafe_id = items[i].cafe_id]_vars

(***************************************************************************)
(* Properties of the first requests (SpecBoot)                             *)
(***************************************************************************)
InHandler(r) ==
    \/ requests[r].pc \in {"handler", "wrapper", "query"}
    \/ (requests[r].pc = "done" /\ requests[r].status = 200)

\* C29: ensureDbReady starts the initialization at most once; every request
\* that waits, waits for that one initialization; a request is in its handler
\* (or was answered by it) only when the initialization has completed; and
\* when the initialization failed no request reaches a handler, the requests
\* that waited are answered 500.
C29_InitOnceBeforeHandlers ==
    /\ dbInit.starts <= 1
    /\ \A r \in DOMAIN requests :
           /\ requests[r].pc = "awaiting" => (dbInit.starts = 1 /\ dbInit.promise # "none")
           /\ InHandler(r) => (dbInit.initialized /\ dbInit.promise = "fulfilled")
    /\ dbInit.promise = "rejected" =>
           \A r \in DOMAIN requests :
               \/ requests[r].pc \in {"idle", "awaiting"}
               \/ (requests[r].pc = "done" /\ requests[r].status = 500)

\* two first requests wait for the one initialization while a third one, come
\* after it completed, would go straight on
C29_Witness ==
    /\ dbInit.starts = 1 /\ dbInit.promise = "fulfilled"
    /\ \E r, q \in DOMAIN requests :
           r # q /\ requests[r].pc = "awaiting" /\ requests[q].pc = "awaiting"

(***************************************************************************)
(* Properties of authenticateToken (SpecAuth)                              *)
(***************************************************************************)
\* C28: authenticateToken answers 401 to a request without a token and 403 to
\* one whose token is expired or wrongly signed or whose user is missing or
\* inactive in the table as it is when the request comes; otherwise the
\* request goes on with req.user being the stored row (its role and cafe_id).
\* A token of a deleted user is never let through again, and the token of a
\* deactivated user only once the user is active again.
C28_TokenOfActiveUserOnly ==
    [][auth' # NoAuthCall =>
          LET token == auth'.token
              active == token.id \in DOMAIN users /\ users[token.id].is_active = 1
          IN /\ token.kind = "none" => auth'.status = 401
             /\ token.kind \in {"expired", "forged"} => auth'.status = 403
             /\ (token.kind = "signed" /\ ~active) => auth'.status = 403
             /\ (token.kind = "signed" /\ active) =>
                    (auth'.status = 200 /\ auth'.user = users[token.id])
             /\ auth'.status = 200 =>
                    /\ token.id \notin revoked.deleted
                    /\ token.id \in revoked.deactivated => users[token.id].is_active = 1]_vars

\* C28 as stated: once a user was deactivated or deleted, no later request
\* bearing a token of theirs is let through.
C28_RevokedTokenRejectedForever ==
    [][auth'.status = 200 =>
          auth'.token.id \notin (revoked.deactivated \cup revoked.deleted)]_vars

\* the good token of a user who is stored inactive was answered 403
C28_Witness ==
    /\ auth.status = 403 /\ auth.token.kind = "signed"
    /\ last.op = "me"
    /\ auth.token.id \in DOMAIN users /\ users[auth.token.id].is_active = 0
    /\ auth.token.id \in revoked.deactivated

====
